---- MODULE Spec2Model ----
(***************************************************************************)
(* Model of utwutwb: the indexed collection Wut (wut.py), its ListStore    *)
(* (store.py), the hash/range indexes (index.py), the adaptive result-set  *)
(* (set_ops.py), the planner (plan.py) and the optimizer (optimize.py).    *)
(* Exceptions are modelled as values: an operator that can raise returns a *)
(* record whose err field names the exception ("" when none was raised).   *)
(***************************************************************************)
EXTENDS Integers, Sequences, FiniteSets, TLC

\* ------------------------------------------------------------------ bounds
NumObjs == 2
MaxVal == 1
MaxRowId == 2

\* ------------------------------------------------------- values and objects
\* Python's None as an attribute value, a key or a row-id result.
None == 0 - 1

Objs == 1..NumObjs
Vals == 0..MaxVal
AttrVals == Vals \cup {None}
AttrNames == {"a", "b"}

\* id_ops.id_from_obj: the identity of an object, a 64-bit address.
HeapBase == 4096
id_from_obj(o) == HeapBase + o

\* utwutwb.constants
ARRAY_SIZE_MAX == 32
SET_SIZE_MIN == 16

\* ------------------------------------------------------------- dictionaries
EmptyMap == [x \in {} |-> 0]
Put(m, k, v) == [x \in (DOMAIN m) \cup {k} |-> IF x = k THEN v ELSE m[x]]
Del(m, k) == [x \in (DOMAIN m) \ {k} |-> m[x]]

\* ------------------------------------------------------ adaptive result-set
\* An EfficientSet value: None, a raw element, a list or a set.  The tag of a
\* raw element tells what the caller passed: "box" for a Box instance, "int"
\* for a plain integer (index.py passes obj.pk).
ESNone == [tag |-> "none", seq |-> << >>, set |-> {}]
ESInt(v) == [tag |-> "int", seq |-> <<v>>, set |-> {}]
ESBox(v) == [tag |-> "box", seq |-> <<v>>, set |-> {}]
ESList(s) == [tag |-> "list", seq |-> s, set |-> {}]
ESSet(S) == [tag |-> "set", seq |-> << >>, set |-> S]
ESErr(kind) == [tag |-> kind, seq |-> << >>, set |-> {}]
ErrKinds == {"AssertionError", "TypeError", "IndexError", "AttributeError", "ValueError"}
IsErr(a) == a.tag \in ErrKinds

SeqRange(s) == {s[i] : i \in 1..Len(s)}
RemoveFirst(s, v) == LET i == CHOOSE j \in 1..Len(s) : s[j] = v /\ \A k \in 1..(j - 1) : s[k] # v IN SubSeq(s, 1, i - 1) \o SubSeq(s, i + 1, Len(s))

RECURSIVE SortedSeq(_)
SortedSeq(S) == IF S = {} THEN << >> ELSE LET m == CHOOSE x \in S : \A y \in S : x <= y IN <<m>> \o SortedSeq(S \ {m})

\* set_ops.add
so_add(a, val) ==
  LET v == val.seq[1] IN
  CASE a.tag = "none" -> val
    [] a.tag = "box" -> IF a.seq[1] = v THEN a ELSE ESList(<<a.seq[1], v>>)
    [] a.tag = "list" ->
         IF v \in SeqRange(a.seq) THEN a
         ELSE IF Len(a.seq) + 1 > ARRAY_SIZE_MAX THEN ESSet(SeqRange(a.seq) \cup {v})
         ELSE ESList(Append(a.seq, v))
    [] a.tag = "set" -> ESSet(a.set \cup {v})
    [] OTHER -> ESErr("AssertionError")

\* A discard that turns a hash-set into an array as soon as the array limit
\* allows it.
eager_discard(a, val) ==
  LET v == val.seq[1] IN
  CASE a.tag = "none" -> [tag |-> "none", seq |-> << >>, set |-> {}]
    [] a.tag = "box" -> IF a.seq[1] = v THEN [tag |-> "none", seq |-> << >>, set |-> {}] ELSE a
    [] a.tag = "list" ->
         IF v \notin SeqRange(a.seq) THEN a
         ELSE LET b == RemoveFirst(a.seq, v) IN
              IF Len(b) = 1 THEN ESBox(b[1]) ELSE ESList(b)
    [] a.tag = "set" ->
         LET S == a.set \ {v} IN
         IF Cardinality(S) <= ARRAY_SIZE_MAX THEN ESList(SortedSeq(S)) ELSE ESSet(S)
    [] OTHER -> ESErr("AssertionError")

\* set_ops.discard
so_discard(a, val) ==
  LET v == val.seq[1] IN
  CASE a.tag = "none" -> ESNone
    [] a.tag = "box" -> IF a.seq[1] = v THEN ESNone ELSE a
    [] a.tag = "list" ->
         IF v \notin SeqRange(a.seq) THEN a
         ELSE LET b == RemoveFirst(a.seq, v) IN
              IF Len(b) = 1 THEN ESBox(b[1]) ELSE ESList(b)
    [] a.tag = "set" ->
         LET S == a.set \ {v} IN
         IF Cardinality(S) < SET_SIZE_MIN THEN ESList(SortedSeq(S)) ELSE ESSet(S)
    [] OTHER -> ESErr("AssertionError")

\* set_ops.to_set: the result as [err, ids]
to_set(a) ==
  CASE a.tag = "none" -> [err |-> "", ids |-> {}]
    [] a.tag = "box" -> [err |-> "", ids |-> {a.seq[1]}]
    [] a.tag = "list" -> [err |-> "", ids |-> SeqRange(a.seq)]
    [] a.tag = "set" -> [err |-> "", ids |-> a.set]
    [] OTHER -> [err |-> "AssertionError", ids |-> {}]

\* set_ops.iterate: the elements yielded, as [err, ids]
so_iterate(a) ==
  CASE a.tag = "none" -> [err |-> "", ids |-> {}]
    [] a.tag = "box" -> [err |-> "", ids |-> {a.seq[1]}]
    [] a.tag = "list" -> [err |-> "", ids |-> SeqRange(a.seq)]
    [] a.tag = "set" -> [err |-> "", ids |-> a.set]
    [] OTHER -> [err |-> "TypeError", ids |-> {}]

\* The row-ids an adaptive set holds, whatever its representation.
ESIds(a) == IF a.tag \in {"int", "box"} THEN {a.seq[1]} ELSE IF a.tag = "list" THEN SeqRange(a.seq) ELSE a.set

\* set_ops.create on the elements of s, in order: the list is returned when
\* the iterable ends within the ARRAY_SIZE_MAX - 2 steps of the loop, i.e.
\* when it has fewer than ARRAY_SIZE_MAX elements; otherwise a set is built.
so_create(s) ==
  IF Len(s) = 0 THEN ESNone
  ELSE IF Len(s) = 1 THEN ESBox(s[1])
  ELSE IF Len(s) < ARRAY_SIZE_MAX THEN ESList(s)
  ELSE ESSet(SeqRange(s))

\* An adaptive set a caller of set_ops holds (the collection's own buckets are
\* in index).
VARIABLE eset

\* The list and set objects a caller of the set operators holds, by address
\* (heap[n] is the content of the object at address n), and its last call:
\* operator, arguments, returned reference and the elements of the result.
VARIABLES heap, opcall

\* The result of a query the caller keeps: ids is the content of a set the
\* query built; alias is 0 for such a set and k when the object returned is the
\* null set of index k itself.
VARIABLE kept

\* One index object driven directly, as Wut.add, Wut.discard and Wut.refresh
\* drive it: ix is the index, mem the key list memorised for each row-id, used
\* the row-ids add was called for, and op, pk, old, new, err the last call.
VARIABLE ixcall

\* What a caller who adds and discards boxes of one adaptive set has seen:
\* op and elem are its last call, before the kind of the set before that call,
\* prev_down whether the call before it turned a hash-set into an array, alt
\* the length of the current run of alternating add and discard of elem, and
\* changes the number of times the set went from array to hash-set or back
\* during that run.
VARIABLE hyst

\* The plan objects of a caller who plans and optimizes: heap holds the set
\* operation and Filter objects by address, p is the plan the planner gave
\* the caller, q what the last optimize returned, before the structure of p
\* before that call, first the structure the first optimize returned, and n
\* the number of times p has been optimized.
VARIABLE pheap
setvars == <<eset, heap, opcall, kept, ixcall, hyst, pheap>>

\* A reference to an EfficientSet: None, a Box (named by its pk) or the
\* address of a list or set object.
RNone == [kind |-> "none", at |-> 0]
RBox(pk) == [kind |-> "box", at |-> pk]
RObj(n) == [kind |-> "obj", at |-> n]
RefIds(H, r) == IF r.kind = "none" THEN {} ELSE IF r.kind = "box" THEN {r.at} ELSE ESIds(H[r.at])
Alloc(H, es) == [heap |-> Append(H, es), ret |-> RObj(Len(H) + 1)]

\* set_ops.copy: a[:] or a.copy() for a list or set, the argument itself otherwise
so_copy(H, a) == IF a.kind # "obj" THEN [heap |-> H, ret |-> a] ELSE Alloc(H, H[a.at])

\* set_ops.to_set on a reference: a new set for None, a Box or a list, the
\* argument itself for a set
so_to_set(H, a) ==
  IF a.kind = "obj" /\ H[a.at].tag = "set" THEN [heap |-> H, ret |-> a]
  ELSE Alloc(H, ESSet(RefIds(H, a)))

\* set_ops.from_set on the set object t
so_from_set(H, t) ==
  LET S == H[t.at].set IN
  IF Cardinality(S) = 0 THEN [heap |-> H, ret |-> RNone]
  ELSE IF Cardinality(S) = 1 THEN [heap |-> H, ret |-> RBox(CHOOSE x \in S : TRUE)]
  ELSE IF Cardinality(S) <= ARRAY_SIZE_MAX THEN Alloc(H, ESList(SortedSeq(S)))
  ELSE [heap |-> H, ret |-> t]

\* set_ops.update: a_temp = to_set(a) is changed in place for each b_i
RECURSIVE update_loop(_, _, _)
update_loop(H, t, bs) ==
  IF bs = << >> THEN H
  ELSE update_loop([H EXCEPT ![t.at] = ESSet(@.set \cup RefIds(H, Head(bs)))], t, Tail(bs))
so_update(H, a, bs) ==
  LET t == so_to_set(H, a) IN so_from_set(update_loop(t.heap, t.ret, bs), t.ret)

\* A union that skips the copy and works on its first argument in place.
union_in_place(H, a, bs) == so_update(H, a, bs)

\* set_ops.union
so_union(H, a, bs) == LET c == so_copy(H, a) IN so_update(c.heap, c.ret, bs)

\* set_ops.intersection_update: returns None at once on an empty intersection
RECURSIVE intersection_loop(_, _, _)
intersection_loop(H, t, bs) ==
  IF bs = << >> THEN [none |-> FALSE, heap |-> H]
  ELSE LET b_i == Head(bs) IN
       IF b_i.kind = "none" THEN [none |-> TRUE, heap |-> H]
       ELSE IF b_i.kind = "box"
       THEN IF b_i.at \notin H[t.at].set THEN [none |-> TRUE, heap |-> H]
            ELSE intersection_loop([H EXCEPT ![t.at] = ESSet({b_i.at})], t, Tail(bs))
       ELSE LET H2 == [H EXCEPT ![t.at] = ESSet(@.set \cap RefIds(H, b_i))] IN
            IF H2[t.at].set = {} THEN [none |-> TRUE, heap |-> H2]
            ELSE intersection_loop(H2, t, Tail(bs))
so_intersection_update(H, a, bs) ==
  LET t == so_to_set(H, a)
      r == intersection_loop(t.heap, t.ret, bs)
  IN IF r.none THEN [heap |-> r.heap, ret |-> RNone] ELSE so_from_set(r.heap, t.ret)

\* set_ops.intersection
so_intersection(H, a, bs) == LET c == so_copy(H, a) IN so_intersection_update(c.heap, c.ret, bs)

\* set_ops.difference_update
RECURSIVE difference_loop(_, _, _)
difference_loop(H, t, bs) ==
  IF bs = << >> THEN H
  ELSE difference_loop([H EXCEPT ![t.at] = ESSet(@.set \ RefIds(H, Head(bs)))], t, Tail(bs))
so_difference_update(H, a, bs) ==
  LET t == so_to_set(H, a) IN so_from_set(difference_loop(t.heap, t.ret, bs), t.ret)

\* set_ops.difference
so_difference(H, a, bs) == LET c == so_copy(H, a) IN so_difference_update(c.heap, c.ret, bs)

\* set_ops.symmetric_difference_update
so_symmetric_difference_update(H, a, b) ==
  LET t == so_to_set(H, a)
      B == RefIds(t.heap, b)
      H2 == [t.heap EXCEPT ![t.ret.at] = ESSet((@.set \ B) \cup (B \ @.set))]
  IN so_from_set(H2, t.ret)

\* set_ops.symmetric_difference
so_symmetric_difference(H, a, b) == LET c == so_copy(H, a) IN so_symmetric_difference_update(c.heap, c.ret, b)

\* ----------------------------------------------------------------- indexes
\* The indexes a collection is built with, in declaration order
\* (IndexParams: name, none_allowed, unique, memorize; kind is the class).
\* DefaultIndexes: a range index that takes null keys and a unique hash index
\* that does not.  NullableUniqueIndexes: the unique index takes null keys too.
DefaultIndexes == <<
  [name |-> "a", kind |-> "RangeIndex", none_allowed |-> TRUE, unique |-> FALSE, memorize |-> TRUE],
  [name |-> "b", kind |-> "HashIndex", none_allowed |-> FALSE, unique |-> TRUE, memorize |-> TRUE] >>
NullableUniqueIndexes == <<
  [name |-> "a", kind |-> "RangeIndex", none_allowed |-> TRUE, unique |-> FALSE, memorize |-> TRUE],
  [name |-> "b", kind |-> "HashIndex", none_allowed |-> TRUE, unique |-> TRUE, memorize |-> TRUE] >>
\* UnmemorisedIndexes: the hash index on b does not memorise its values.
UnmemorisedIndexes == <<
  [name |-> "a", kind |-> "RangeIndex", none_allowed |-> TRUE, unique |-> FALSE, memorize |-> TRUE],
  [name |-> "b", kind |-> "HashIndex", none_allowed |-> TRUE, unique |-> FALSE, memorize |-> FALSE] >>

\* TwoIndexesOnA: a hash index and a range index declared on a, in that order,
\* and a hash index on b; no index on c.
TwoIndexesOnA == <<
  [name |-> "a", kind |-> "HashIndex", none_allowed |-> TRUE, unique |-> FALSE, memorize |-> TRUE],
  [name |-> "a", kind |-> "RangeIndex", none_allowed |-> TRUE, unique |-> FALSE, memorize |-> TRUE],
  [name |-> "b", kind |-> "HashIndex", none_allowed |-> TRUE, unique |-> FALSE, memorize |-> TRUE] >>

\* Wut.indexes as Wut.__init__ fills it from its indexes argument; it never
\* changes afterwards.
VARIABLE indexes

\* Wut._iter_indexes
Indexes == indexes
NumIdx == Len(Indexes)
IdxNums == 1..NumIdx

\* HashIndex.__init__: the null set exists only when the class and the
\* parameters both allow null keys.
NONE_ALLOWED(kind) == kind \in {"HashIndex", "RangeIndex"}
has_none_set(p) == NONE_ALLOWED(p.kind) /\ p.none_allowed
NewIndex == [tree |-> EmptyMap, none_set |-> {}]

tree_get(tree, v) == IF v \in DOMAIN tree THEN tree[v] ELSE ESNone

\* HashIndex.add, the body of the loop for one key v
HashIndex_add_key(ix, p, pk, v) ==
  IF v = None THEN
    IF has_none_set(p) THEN [err |-> "", ix |-> [ix EXCEPT !.none_set = @ \cup {pk}]]
    ELSE [err |-> "AttributeError", ix |-> ix]
  ELSE
    LET dest_set == tree_get(ix.tree, v) IN
    IF dest_set # ESNone /\ p.unique THEN [err |-> "ValueError:unique", ix |-> ix]
    ELSE LET dest_set2 == so_add(dest_set, ESInt(pk)) IN
         IF IsErr(dest_set2) THEN [err |-> dest_set2.tag, ix |-> ix]
         ELSE [err |-> "", ix |-> [ix EXCEPT !.tree = Put(@, v, dest_set2)]]

\* HashIndex.add over the key list val (one key for a hash or range index)
RECURSIVE HashIndex_add(_, _, _, _)
HashIndex_add(ix, p, pk, val) ==
  IF val = << >> THEN [err |-> "", ix |-> ix]
  ELSE LET r == HashIndex_add_key(ix, p, pk, Head(val)) IN
       IF r.err # "" THEN r ELSE HashIndex_add(r.ix, p, pk, Tail(val))

\* HashIndex.remove, the body of the loop for one key v
HashIndex_remove_key(ix, p, pk, v) ==
  IF v = None THEN
    IF has_none_set(p) THEN [err |-> "", ix |-> [ix EXCEPT !.none_set = @ \ {pk}]]
    ELSE [err |-> "AttributeError", ix |-> ix]
  ELSE
    LET dest_set == tree_get(ix.tree, v) IN
    IF dest_set = ESNone THEN [err |-> "", ix |-> ix]
    ELSE LET dest_set2 == so_discard(dest_set, ESInt(pk)) IN
         IF IsErr(dest_set2) THEN [err |-> dest_set2.tag, ix |-> ix]
         ELSE IF dest_set2 = ESNone THEN [err |-> "", ix |-> [ix EXCEPT !.tree = Del(@, v)]]
         ELSE [err |-> "", ix |-> [ix EXCEPT !.tree = Put(@, v, dest_set2)]]

\* HashIndex.remove over the key list val
RECURSIVE HashIndex_remove(_, _, _, _)
HashIndex_remove(ix, p, pk, val) ==
  IF val = << >> THEN [err |-> "", ix |-> ix]
  ELSE LET r == HashIndex_remove_key(ix, p, pk, Head(val)) IN
       IF r.err # "" THEN r ELSE HashIndex_remove(r.ix, p, pk, Tail(val))

\* HashIndex.refresh: discard pk from the keys of old - new, then add it to the
\* keys of new - old (sets are walked in ascending order).
HashIndex_refresh(ix, p, pk, old_val, new_val) ==
  LET old_val_s == SeqRange(old_val)
      new_val_s == SeqRange(new_val)
      added_s == new_val_s \ old_val_s
      removed_s == old_val_s \ new_val_s
      r1 == HashIndex_remove(ix, p, pk, SortedSeq(removed_s))
  IN IF r1.err # "" THEN r1 ELSE HashIndex_add(r1.ix, p, pk, SortedSeq(added_s))

\* HashIndex.clear: hasattr(self, '__none_set') is False for the name-mangled
\* attribute, so the null set is left as it is.
HashIndex_clear(ix) == [ix EXCEPT !.tree = EmptyMap]

\* HashIndex._load_val / _store_val for hash and range indexes
load_val(value) == <<value>>
store_val(value) == value[1]

\* ------------------------------------------------------------------- store
\* ObjectStorage: obj, pk and index_mem, which is not set by the constructor
\* (attr.ib(init=False)); has_mem tells whether it has been assigned.
NoItem == [obj |-> 0, pk |-> None, index_mem |-> << >>, has_mem |-> FALSE]
NewBox(o, pk) == [obj |-> o, pk |-> pk, index_mem |-> << >>, has_mem |-> FALSE]

\* Python list indexing self._items[pk]
InList(items, pk) == pk < Len(items) /\ pk >= 0 - Len(items)
ListAt(items, pk) == IF pk >= 0 THEN items[pk + 1] ELSE items[Len(items) + pk + 1]

\* ListStore.get
ListStore_get(items, pk) ==
  IF ~InList(items, pk) THEN [err |-> "IndexError", box |-> NoItem]
  ELSE IF ListAt(items, pk) = NoItem THEN [err |-> "AssertionError", box |-> NoItem]
  ELSE [err |-> "", box |-> ListAt(items, pk)]

\* ListStore.set
ListStore_set(items, pk, o) ==
  LET storage == NewBox(o, pk) IN
  IF Len(items) = pk THEN [err |-> "", items |-> Append(items, storage), box |-> storage]
  ELSE LET ext == IF Len(items) < pk THEN items \o [i \in 1..(pk - Len(items) + 1) |-> NoItem] ELSE items IN
       IF ext[pk + 1] # NoItem THEN [err |-> "AssertionError", items |-> ext, box |-> NoItem]
       ELSE [err |-> "", items |-> [ext EXCEPT ![pk + 1] = storage], box |-> storage]

\* ListStore.delete
ListStore_delete(items, pk) ==
  IF ~InList(items, pk) THEN [err |-> "IndexError", items |-> items]
  ELSE IF ListAt(items, pk) = NoItem THEN [err |-> "AssertionError", items |-> items]
  ELSE [err |-> "", items |-> [items EXCEPT ![pk + 1] = NoItem]]

\* ListStore.__contains__: a pk of None makes the comparison 0 <= pk raise
ListStore_contains(items, pk) ==
  IF pk = None THEN [err |-> "TypeError", found |-> FALSE]
  ELSE [err |-> "", found |-> (0 <= pk /\ pk < Len(items) /\ items[pk + 1] # NoItem)]

\* ListStore.keys
ListStore_keys(items) == {i - 1 : i \in {j \in 1..Len(items) : items[j] # NoItem}}

\* ListStore.values: the boxes of the occupied slots, in slot order
IsItem(b) == b # NoItem
ListStore_values(items) == SelectSeq(items, IsItem)

\* ListStore.clear
ListStore_clear(items) == [i \in 1..Len(items) |-> NoItem]

\* -------------------------------------------------------------- collection
VARIABLES objattr, items, id_to_rowid, count, rowid_counter, index, last, res, member, handed, cur_plan

wutvars == <<indexes, objattr, items, id_to_rowid, count, rowid_counter, index, last, res, member, handed, cur_plan>>
vars == <<indexes, objattr, items, id_to_rowid, count, rowid_counter, index, last, res, member, handed, cur_plan, eset, heap, opcall, kept, ixcall, hyst, pheap>>

NoRes == [err |-> "none", ids |-> {}]
Done(op, o, err) == [op |-> op, obj |-> o, err |-> err]

\* Index.mem_number as assigned by Wut.__init__ (position in the memorised
\* tuple, from 1)
mem_number(k) == Cardinality({j \in 1..k : Indexes[j].memorize})

\* Wut.getattr(obj_sto, index, memory)
Wut_getattr(box, k, memory, attrs) ==
  IF memory /\ Indexes[k].memorize THEN box.index_mem[mem_number(k)]
  ELSE attrs[box.obj][Indexes[k].name]

\* HashIndex._extract_val
extract_val(box, k, memory, attrs) == <<Wut_getattr(box, k, memory, attrs)>>

\* HashIndex.make_val
make_val(box, k, attrs) == store_val(extract_val(box, k, FALSE, attrs))

\* Wut.add, the loop over the indexes from index k on
RECURSIVE add_loop(_, _, _, _, _)
add_loop(ixs, k, box, attrs, im_ls) ==
  IF k > NumIdx THEN [err |-> "", ixs |-> ixs, im |-> im_ls]
  ELSE LET val == extract_val(box, k, FALSE, attrs)
           r == HashIndex_add(ixs[k], Indexes[k], box.pk, val)
       IN IF r.err # "" THEN [err |-> r.err, ixs |-> [ixs EXCEPT ![k] = r.ix], im |-> im_ls]
          ELSE add_loop([ixs EXCEPT ![k] = r.ix], k + 1, box, attrs,
                        IF Indexes[k].memorize THEN Append(im_ls, store_val(val)) ELSE im_ls)

\* Wut.add, the test `obj_id in self.id_to_rowid`
always_new(obj_id, map) == FALSE
already_added(obj_id, map) == obj_id \in DOMAIN map

\* Wut.add (an add that allocates a row-id is bounded by MaxRowId)
Add(o) ==
  LET obj_id == id_from_obj(o) IN
  /\ UNCHANGED setvars
  /\ already_added(obj_id, id_to_rowid) \/ rowid_counter < MaxRowId
  /\ UNCHANGED <<indexes, objattr, cur_plan>>
  /\ res' = NoRes
  /\ handed' = IF ~already_added(obj_id, id_to_rowid) /\ ListStore_set(items, rowid_counter, o).err = ""
               THEN handed \cup {rowid_counter} ELSE handed
  /\ IF already_added(obj_id, id_to_rowid)
     THEN /\ last' = Done("add", o, "")
          /\ UNCHANGED <<items, id_to_rowid, count, rowid_counter, index, member>>
     ELSE LET s == ListStore_set(items, rowid_counter, o) IN
          /\ IF s.err # ""
             THEN /\ items' = s.items
                  /\ last' = Done("add", o, s.err)
                  /\ UNCHANGED <<id_to_rowid, count, rowid_counter, index, member>>
             ELSE LET r == add_loop(index, 1, s.box, objattr, << >>) IN
                  /\ index' = r.ixs
                  /\ last' = Done("add", o, r.err)
                  /\ IF r.err # ""
                     THEN /\ items' = s.items
                          /\ UNCHANGED <<id_to_rowid, count, rowid_counter, member>>
                     ELSE /\ items' = [s.items EXCEPT ![rowid_counter + 1] = [@ EXCEPT !.index_mem = r.im, !.has_mem = TRUE]]
                          /\ id_to_rowid' = Put(id_to_rowid, obj_id, rowid_counter)
                          /\ rowid_counter' = rowid_counter + 1
                          /\ count' = count + 1
                          /\ member' = member \cup {o}

\* Wut.discard, the loop over the indexes from index k on
RECURSIVE remove_loop(_, _, _, _)
remove_loop(ixs, k, box, attrs) ==
  IF k > NumIdx THEN [err |-> "", ixs |-> ixs]
  ELSE LET val == IF Indexes[k].memorize THEN <<box.index_mem[mem_number(k)]>>
                  ELSE extract_val(box, k, TRUE, attrs)
           r == HashIndex_remove(ixs[k], Indexes[k], box.pk, val)
       IN IF r.err # "" THEN [err |-> r.err, ixs |-> [ixs EXCEPT ![k] = r.ix]]
          ELSE remove_loop([ixs EXCEPT ![k] = r.ix], k + 1, box, attrs)

\* Wut.discard
Discard(o) ==
  LET obj_id == id_from_obj(o)
      row_id == IF obj_id \in DOMAIN id_to_rowid THEN id_to_rowid[obj_id] ELSE None
  IN
  /\ UNCHANGED setvars
  /\ UNCHANGED <<indexes, objattr, rowid_counter, handed, cur_plan>>
  /\ res' = NoRes
  /\ IF row_id = None
     THEN /\ last' = Done("discard", o, "")
          /\ UNCHANGED <<items, id_to_rowid, count, index, member>>
     ELSE LET g == ListStore_get(items, obj_id) IN
          /\ IF g.err # ""
             THEN /\ last' = Done("discard", o, g.err)
                  /\ UNCHANGED <<items, id_to_rowid, count, index>>
             ELSE /\ id_to_rowid' = Del(id_to_rowid, obj_id)
                  /\ IF ~g.box.has_mem
                     THEN /\ last' = Done("discard", o, "AttributeError")
                          /\ UNCHANGED <<items, count, index>>
                     ELSE LET r == remove_loop(index, 1, g.box, objattr)
                              d == ListStore_delete(items, row_id)
                          IN /\ index' = r.ixs
                             /\ IF r.err # ""
                                THEN /\ last' = Done("discard", o, r.err)
                                     /\ UNCHANGED <<items, count>>
                                ELSE /\ items' = d.items
                                     /\ last' = Done("discard", o, d.err)
                                     /\ count' = IF d.err = "" THEN count - 1 ELSE count
          /\ member' = IF last'.err = "" THEN member \ {o} ELSE member

\* Wut.refresh, the loop over the indexes from index k on
RECURSIVE refresh_loop(_, _, _, _, _)
refresh_loop(ixs, k, box, attrs, new_im_ls) ==
  IF k > NumIdx THEN [err |-> "", ixs |-> ixs, im |-> new_im_ls]
  ELSE IF ~Indexes[k].memorize THEN refresh_loop(ixs, k + 1, box, attrs, new_im_ls)
  ELSE LET old_v == box.index_mem[mem_number(k)]
           new_v == make_val(box, k, attrs)
           new_val == IF new_v = None THEN extract_val(box, k, FALSE, attrs) ELSE load_val(new_v)
           r == IF old_v # new_v
                THEN HashIndex_refresh(ixs[k], Indexes[k], box.pk, load_val(old_v), new_val)
                ELSE [err |-> "", ix |-> ixs[k]]
       IN IF r.err # "" THEN [err |-> r.err, ixs |-> [ixs EXCEPT ![k] = r.ix], im |-> new_im_ls]
          ELSE refresh_loop([ixs EXCEPT ![k] = r.ix], k + 1, box, attrs, Append(new_im_ls, new_v))

\* Wut.refresh
Refresh(o) ==
  LET obj_id == id_from_obj(o)
      row_id == IF obj_id \in DOMAIN id_to_rowid THEN id_to_rowid[obj_id] ELSE None
      c == ListStore_contains(items, row_id)
      g == ListStore_get(items, obj_id)
  IN
  /\ UNCHANGED setvars
  /\ UNCHANGED <<indexes, objattr, id_to_rowid, count, rowid_counter, member, handed, cur_plan>>
  /\ res' = NoRes
  /\ IF c.err # ""
     THEN /\ last' = Done("refresh", o, c.err)
          /\ UNCHANGED <<items, index>>
     ELSE IF ~c.found
     THEN /\ last' = Done("refresh", o, "ValueError:item not found")
          /\ UNCHANGED <<items, index>>
     ELSE IF g.err # ""
     THEN /\ last' = Done("refresh", o, g.err)
          /\ UNCHANGED <<items, index>>
     ELSE IF ~g.box.has_mem
     THEN /\ last' = Done("refresh", o, "AttributeError")
          /\ UNCHANGED <<items, index>>
     ELSE LET r == refresh_loop(index, 1, g.box, objattr, << >>) IN
          /\ index' = r.ixs
          /\ last' = Done("refresh", o, r.err)
          /\ items' = IF r.err # "" THEN items
                      ELSE [items EXCEPT ![g.box.pk + 1] = [@ EXCEPT !.index_mem = r.im]]

\* Wut.clear
Clear ==
  /\ UNCHANGED setvars
  /\ UNCHANGED <<indexes, handed, cur_plan>>
  /\ id_to_rowid' = EmptyMap
  /\ count' = 0
  /\ index' = [k \in IdxNums |-> HashIndex_clear(index[k])]
  /\ items' = ListStore_clear(items)
  /\ last' = Done("clear", 0, "")
  /\ res' = NoRes
  /\ member' = {}
  /\ UNCHANGED <<objattr, rowid_counter>>

\* The application assigns an attribute of one of its objects.
SetAttr(o, n, v) ==
  /\ UNCHANGED setvars
  /\ objattr[o][n] # v
  /\ objattr' = [objattr EXCEPT ![o][n] = v]
  /\ last' = Done("setattr", 0, "")
  /\ res' = NoRes
  /\ UNCHANGED <<indexes, items, id_to_rowid, count, rowid_counter, index, member, handed, cur_plan>>

\* ----------------------------------------------------------- condition IR
\* utwutwb.condition: Literal, Attribute, Array, the binary and unary operators
Literal(v) == [t |-> "Literal", value |-> v]
Attribute(n) == [t |-> "Attribute", name |-> n]
Array(its) == [t |-> "Array", items |-> its]
BinOp(op, l, r) == [t |-> op, left |-> l, right |-> r]
Not(c) == [t |-> "Not", operand |-> c]
BinOps == {"Eq", "Ne", "Lt", "Le", "Gt", "Ge", "And", "Or", "In"}
IsBinOp(c) == c.t \in BinOps

\* condition.and_: the conjunction of the given conditions, folded from the left
RECURSIVE and_fold(_, _)
and_fold(acc, cs) == IF cs = << >> THEN acc ELSE and_fold(BinOp("And", acc, Head(cs)), Tail(cs))
and_(cs) == and_fold(Head(cs), Tail(cs))

\* ------------------------------------------------------------------ plan IR
Empty == [t |-> "Empty"]
ScanFilter(c) == [t |-> "ScanFilter", condition |-> c]
Filter(c, inp) == [t |-> "Filter", condition |-> c, input |-> inp]
SetOp(kind, inps) == [t |-> kind, inputs |-> inps]
IndexLookup(k, v) == [t |-> "IndexLookup", index |-> k, value |-> v]
IndexRange(k, rg) == [t |-> "IndexRange", index |-> k, range |-> rg]
SetOps == {"Intersect", "Union", "Difference"}

\* plan.UNSET, plan.Bound and plan.Range
UNSET == [set |-> FALSE, value |-> 0, inclusive |-> FALSE]
Bound(v, inc) == [set |-> TRUE, value |-> v, inclusive |-> inc]
Range(l, r) == [left |-> l, right |-> r]

\* Range._combine_bounds; tighter(x, y) is the compare argument
combine_bounds(a, b, greater) ==
  IF ~a.set THEN b
  ELSE IF ~b.set THEN a
  ELSE IF a = b THEN Bound(a.value, a.inclusive /\ b.inclusive)
  ELSE IF (IF greater THEN a.value > b.value ELSE a.value < b.value) THEN a
  ELSE b

\* Range.combine: [none |-> TRUE] stands for the None of an invalid range
Range_combine(self, other) ==
  LET left == combine_bounds(self.left, other.left, TRUE)
      right == combine_bounds(self.right, other.right, FALSE)
      invalid == /\ left.set
                 /\ right.set
                 /\ IF left.inclusive /\ right.inclusive THEN left.value > right.value
                    ELSE left.value >= right.value
  IN IF invalid THEN [none |-> TRUE, range |-> Range(UNSET, UNSET)]
     ELSE [none |-> FALSE, range |-> Range(left, right)]

\* Planner.plan
RECURSIVE Planner_plan(_)
Planner_plan(c) ==
  IF c.t = "And" THEN SetOp("Intersect", <<Planner_plan(c.left), Planner_plan(c.right)>>)
  ELSE IF c.t = "Or" THEN SetOp("Union", <<Planner_plan(c.left), Planner_plan(c.right)>>)
  ELSE ScanFilter(c)

\* --------------------------------------------------------------- optimizer
\* Inputs taken as they are, nested set operations included.
keep_inputs(kind, inps) == inps

\* MergeSetOps.transform
RECURSIVE splice(_, _)
splice(kind, inps) ==
  IF inps = << >> THEN << >>
  ELSE (IF Head(inps).t = kind THEN Head(inps).inputs ELSE <<Head(inps)>>) \o splice(kind, Tail(inps))

MergeSetOps(plan) == IF plan.t \in SetOps THEN SetOp(plan.t, splice(plan.t, plan.inputs)) ELSE plan

\* HashIndex.match; [none |-> TRUE] stands for None
NoMatch == [none |-> TRUE, plan |-> Empty]
HashIndex_match(k, condition, operand, operand_is_left) ==
  IF condition.t = "Eq" /\ operand.t = "Literal"
  THEN [none |-> FALSE, plan |-> IndexLookup(k, operand.value)]
  ELSE IF /\ condition.t = "In"
          /\ ~operand_is_left
          /\ operand.t = "Array"
          /\ \A i \in 1..Len(operand.items) : operand.items[i].t = "Literal"
  THEN [none |-> FALSE,
        plan |-> SetOp("Union", [i \in 1..Len(operand.items) |-> IndexLookup(k, operand.items[i].value)])]
  ELSE NoMatch

\* A comparison taken as written whichever side the attribute is on.
as_written(op) == op

\* RangeIndex.INVERSE_COMPARISONS and COMPARISON_RANGES
INVERSE_COMPARISONS(op) ==
  CASE op = "Lt" -> "Gt" [] op = "Gt" -> "Lt" [] op = "Le" -> "Ge" [] op = "Ge" -> "Le"
COMPARISON_RANGES(op, val) ==
  CASE op = "Lt" -> Range(UNSET, Bound(val, FALSE))
    [] op = "Gt" -> Range(Bound(val, FALSE), UNSET)
    [] op = "Le" -> Range(UNSET, Bound(val, TRUE))
    [] op = "Ge" -> Range(Bound(val, TRUE), UNSET)

\* RangeIndex.match
RangeIndex_match(k, condition, operand, operand_is_left) ==
  IF condition.t \in {"Lt", "Gt", "Le", "Ge"} /\ operand.t = "Literal"
  THEN LET comparison == IF operand_is_left THEN INVERSE_COMPARISONS(condition.t) ELSE condition.t
       IN [none |-> FALSE, plan |-> IndexRange(k, COMPARISON_RANGES(comparison, operand.value))]
  ELSE HashIndex_match(k, condition, operand, operand_is_left)

Index_match(k, condition, operand, operand_is_left) ==
  IF Indexes[k].kind = "RangeIndex" THEN RangeIndex_match(k, condition, operand, operand_is_left)
  ELSE HashIndex_match(k, condition, operand, operand_is_left)

\* The loop of UseIndex.transform walked from the last index to the first.
RECURSIVE last_match_from(_, _, _, _, _)
last_match_from(k, name, condition, operand, operand_is_left) ==
  IF k < 1 THEN NoMatch
  ELSE IF Indexes[k].name # name THEN last_match_from(k - 1, name, condition, operand, operand_is_left)
  ELSE LET m == Index_match(k, condition, operand, operand_is_left) IN
       IF ~m.none THEN m ELSE last_match_from(k - 1, name, condition, operand, operand_is_left)
last_match(k, name, condition, operand, operand_is_left) ==
  last_match_from(NumIdx, name, condition, operand, operand_is_left)

\* UseIndex.transform, the loop over ctx.indexes.get(name) from index k on
RECURSIVE first_match(_, _, _, _, _)
first_match(k, name, condition, operand, operand_is_left) ==
  IF k > NumIdx THEN NoMatch
  ELSE IF Indexes[k].name # name THEN first_match(k + 1, name, condition, operand, operand_is_left)
  ELSE LET m == Index_match(k, condition, operand, operand_is_left) IN
       IF ~m.none THEN m ELSE first_match(k + 1, name, condition, operand, operand_is_left)

\* UseIndex.transform
UseIndex(plan) ==
  IF plan.t = "ScanFilter" /\ IsBinOp(plan.condition)
  THEN LET l == plan.condition.left
           r == plan.condition.right
       IN IF l.t = "Attribute" /\ r.t # "Attribute"
          THEN LET m == first_match(1, l.name, plan.condition, r, FALSE) IN IF m.none THEN plan ELSE m.plan
          ELSE IF r.t = "Attribute" /\ l.t # "Attribute"
          THEN LET m == first_match(1, r.name, plan.condition, l, TRUE) IN IF m.none THEN plan ELSE m.plan
          ELSE plan
  ELSE plan

\* CombineRanges.transform: the indexes of the IndexRange inputs in the order
\* of their first appearance (the keys of plans_by_index)
RECURSIVE index_order(_, _)
index_order(inps, seen) ==
  IF inps = << >> THEN seen
  ELSE IF Head(inps).t = "IndexRange" /\ Head(inps).index \notin SeqRange(seen)
  THEN index_order(Tail(inps), Append(seen, Head(inps).index))
  ELSE index_order(Tail(inps), seen)

\* CombineRanges.transform: new_range folded over plans[1:]
RECURSIVE fold_ranges(_, _)
fold_ranges(new_range, plans) ==
  IF plans = << >> THEN [none |-> FALSE, range |-> new_range]
  ELSE LET combined == Range_combine(new_range, Head(plans).range) IN
       IF combined.none THEN combined ELSE fold_ranges(combined.range, Tail(plans))

\* CombineRanges.transform: the loop over plans_by_index.items()
RECURSIVE combine_groups(_, _, _)
combine_groups(order, inps, inputs) ==
  IF order = << >> THEN [empty |-> FALSE, inputs |-> inputs]
  ELSE LET ix == Head(order)
           IsMine(i) == i.t = "IndexRange" /\ i.index = ix
           plans == SelectSeq(inps, IsMine)
       IN IF Len(plans) = 1 THEN combine_groups(Tail(order), inps, Append(inputs, plans[1]))
          ELSE LET f == fold_ranges(plans[1].range, Tail(plans)) IN
               IF f.none THEN [empty |-> TRUE, inputs |-> << >>]
               ELSE combine_groups(Tail(order), inps, Append(inputs, IndexRange(ix, f.range)))

\* CombineRanges.transform
CombineRanges(plan) ==
  IF plan.t = "Intersect"
  THEN LET IsOther(i) == i.t # "IndexRange"
           others == SelectSeq(plan.inputs, IsOther)
           g == combine_groups(index_order(plan.inputs, << >>), plan.inputs, << >>)
           inputs == g.inputs \o others
       IN IF g.empty THEN Empty
          ELSE IF Len(inputs) = 1 THEN inputs[1]
          ELSE SetOp("Intersect", inputs)
  ELSE plan

\* CombineFilters.transform
CombineFilters(plan) ==
  IF plan.t = "Intersect"
  THEN LET IsFilter(i) == i.t = "ScanFilter"
           IsOther(i) == i.t # "ScanFilter"
           filters == SelectSeq(plan.inputs, IsFilter)
           others == SelectSeq(plan.inputs, IsOther)
       IN IF filters # << >>
          THEN LET combined == and_([i \in 1..Len(filters) |-> filters[i].condition]) IN
               IF others # << >>
               THEN Filter(combined, IF Len(others) = 1 THEN others[1] ELSE SetOp("Intersect", others))
               ELSE ScanFilter(combined)
          ELSE plan
  ELSE plan

\* The rule named rule applied to one node (TransformerRule.transform)
apply_rule(rule, plan) ==
  CASE rule = "MergeSetOps" -> MergeSetOps(plan)
    [] rule = "UseIndex" -> UseIndex(plan)
    [] rule = "CombineRanges" -> CombineRanges(plan)
    [] rule = "CombineFilters" -> CombineFilters(plan)

\* Plan.transform: the inputs first (transform_inputs), then the node itself
RECURSIVE Plan_transform(_, _)
Plan_transform(rule, plan) ==
  LET inner ==
        IF plan.t \in SetOps
        THEN SetOp(plan.t, [i \in 1..Len(plan.inputs) |-> Plan_transform(rule, plan.inputs[i])])
        ELSE IF plan.t = "Filter" THEN Filter(plan.condition, Plan_transform(rule, plan.input))
        ELSE plan
  IN apply_rule(rule, inner)

\* Chain.DEFAULT_RULES and Chain.__call__
DEFAULT_RULES == <<"MergeSetOps", "UseIndex", "CombineRanges", "CombineFilters">>
RECURSIVE Chain(_, _)
Chain(rules, plan) == IF rules = << >> THEN plan ELSE Chain(Tail(rules), Plan_transform(Head(rules), plan))

\* Wut.optimize
Wut_optimize(plan) == Chain(DEFAULT_RULES, plan)

\* ------------------------------------------------------- plans as objects
\* Set operations and Filters are objects the rules assign to (plan.inputs,
\* self.inputs, self.input); a plan is a leaf (Empty, a scan or an index
\* plan, which no rule assigns to) or a reference to such an object, whose
\* inputs are plans of this kind.
PRef(n) == [t |-> "Ref", at |-> n]
IsRef(hp) == hp.t = "Ref"

\* The structure of the plan hp stands for in H
RECURSIVE Deref(_, _)
Deref(H, hp) ==
  IF ~IsRef(hp) THEN hp
  ELSE LET node == H[hp.at] IN
       IF node.t \in SetOps
       THEN SetOp(node.t, [i \in 1..Len(node.inputs) |-> Deref(H, node.inputs[i])])
       ELSE Filter(node.condition, Deref(H, node.input))

\* The one element of a singleton set. The operators below bind the result
\* of a call (r \in {call}) so that it is computed once and then used twice.
The(S) == CHOOSE x \in S : TRUE

\* The constructors SetOp(inputs=...) and Filter(condition=..., input=...):
\* new objects for the set operations and Filters of the structure built
RECURSIVE NewPlan(_, _)
RECURSIVE new_inputs(_, _, _)
new_inputs(H, ps, done) ==
  IF ps = << >> THEN [heap |-> H, rets |-> done]
  ELSE The({new_inputs(r.heap, Tail(ps), Append(done, r.ret)) : r \in {NewPlan(H, Head(ps))}})
NewPlan(H, plan) ==
  IF plan.t \in SetOps
  THEN The({[heap |-> Append(r.heap, SetOp(plan.t, r.rets)), ret |-> PRef(Len(r.heap) + 1)] :
              r \in {new_inputs(H, plan.inputs, << >>)}})
  ELSE IF plan.t = "Filter"
  THEN The({[heap |-> Append(r.heap, Filter(plan.condition, r.ret)), ret |-> PRef(Len(r.heap) + 1)] :
              r \in {NewPlan(H, plan.input)}})
  ELSE [heap |-> H, ret |-> plan]

\* MergeSetOps.transform, the loop that fills new_inputs
RECURSIVE splice_obj(_, _, _)
splice_obj(H, kind, inps) ==
  IF inps = << >> THEN << >>
  ELSE (IF IsRef(Head(inps)) /\ H[Head(inps).at].t = kind THEN H[Head(inps).at].inputs ELSE <<Head(inps)>>)
         \o splice_obj(H, kind, Tail(inps))

\* The transform method of the rule named rule called on hp: MergeSetOps
\* assigns plan.inputs and returns plan; the other rules return plan itself
\* or build new objects from the inputs they keep.
apply_rule_obj(rule, H, hp) ==
  IF ~IsRef(hp) THEN NewPlan(H, apply_rule(rule, hp))
  ELSE LET node == H[hp.at] IN
       CASE rule = "MergeSetOps" ->
              IF node.t \in SetOps
              THEN [heap |-> [H EXCEPT ![hp.at] = SetOp(node.t, splice_obj(H, node.t, node.inputs))], ret |-> hp]
              ELSE [heap |-> H, ret |-> hp]
         [] rule = "UseIndex" -> [heap |-> H, ret |-> hp]
         [] rule = "CombineRanges" ->
              IF node.t = "Intersect" THEN NewPlan(H, CombineRanges(node)) ELSE [heap |-> H, ret |-> hp]
         [] rule = "CombineFilters" ->
              IF node.t = "Intersect" /\ CombineFilters(node) # node
              THEN NewPlan(H, CombineFilters(node))
              ELSE [heap |-> H, ret |-> hp]

\* Plan.transform on an object: transform_inputs assigns the transformed
\* inputs to self.inputs (self.input for a Filter), then the rule is called
RECURSIVE Plan_transform_obj(_, _, _)
RECURSIVE transform_inputs_obj(_, _, _, _)
transform_inputs_obj(rule, H, inps, done) ==
  IF inps = << >> THEN [heap |-> H, rets |-> done]
  ELSE The({transform_inputs_obj(rule, r.heap, Tail(inps), Append(done, r.ret)) :
              r \in {Plan_transform_obj(rule, H, Head(inps))}})
Plan_transform_obj(rule, H, hp) ==
  IF ~IsRef(hp) THEN apply_rule_obj(rule, H, hp)
  ELSE LET node == H[hp.at] IN
       IF node.t \in SetOps
       THEN The({apply_rule_obj(rule, [r.heap EXCEPT ![hp.at] = SetOp(node.t, r.rets)], hp) :
                   r \in {transform_inputs_obj(rule, H, node.inputs, << >>)}})
       ELSE The({apply_rule_obj(rule, [r.heap EXCEPT ![hp.at] = Filter(node.condition, r.ret)], hp) :
                   r \in {Plan_transform_obj(rule, H, node.input)}})

\* Chain.__call__ on an object
RECURSIVE Chain_obj(_, _, _)
Chain_obj(rules, H, hp) ==
  IF rules = << >> THEN [heap |-> H, ret |-> hp]
  ELSE The({Chain_obj(Tail(rules), r.heap, r.ret) : r \in {Plan_transform_obj(Head(rules), H, hp)}})

\* Wut.optimize on an object
Wut_optimize_obj(H, hp) == Chain_obj(DEFAULT_RULES, H, hp)

\* ---------------------------------------------------------------- executor
\* The part of the collection a query reads: the store, the objects'
\* attributes and the indexes.
World == [items |-> items, objattr |-> objattr, index |-> index]

\* Wut.match: the value of a condition for a box, as [err, val]
RECURSIVE Wut_match(_, _, _)
Wut_match(c, box, W) ==
  CASE c.t = "Literal" -> [err |-> "", val |-> c.value]
    [] c.t = "Attribute" -> [err |-> "", val |-> W.objattr[box.obj][c.name]]
    [] c.t = "Array" ->
         LET ms == [i \in 1..Len(c.items) |-> Wut_match(c.items[i], box, W)]
             bad == {i \in 1..Len(c.items) : ms[i].err # ""}
         IN IF bad # {} THEN [err |-> ms[CHOOSE i \in bad : \A j \in bad : i <= j].err, val |-> {}]
            ELSE [err |-> "", val |-> {ms[i].val : i \in 1..Len(c.items)}]
    [] c.t = "Not" ->
         LET m == Wut_match(c.operand, box, W) IN
         IF m.err # "" THEN m ELSE [err |-> "", val |-> ~m.val]
    [] IsBinOp(c) ->
         LET l == Wut_match(c.left, box, W)
             r == Wut_match(c.right, box, W)
         IN IF l.err # "" THEN [err |-> l.err, val |-> FALSE]
            ELSE IF r.err # "" THEN [err |-> r.err, val |-> FALSE]
            ELSE IF c.t \in {"Lt", "Le", "Gt", "Ge"} /\ (l.val = None \/ r.val = None)
            THEN [err |-> "TypeError", val |-> FALSE]
            ELSE [err |-> "",
                  val |-> CASE c.t = "Eq" -> l.val = r.val
                            [] c.t = "Ne" -> l.val # r.val
                            [] c.t = "Lt" -> l.val < r.val
                            [] c.t = "Le" -> l.val <= r.val
                            [] c.t = "Gt" -> l.val > r.val
                            [] c.t = "Ge" -> l.val >= r.val
                            [] c.t = "And" -> l.val /\ r.val
                            [] c.t = "Or" -> l.val \/ r.val
                            [] c.t = "In" -> l.val \in r.val]
    [] OTHER -> [err |-> "ValueError:unsupported condition", val |-> FALSE]

\* Wut._execute_filter
Wut_execute_filter(objs, condition, W) ==
  IF condition.t = "Literal" THEN [err |-> "", ids |-> IF condition.value THEN objs ELSE {}]
  ELSE LET one(o) == LET g == ListStore_get(W.items, o) IN
                    IF g.err # "" THEN [err |-> g.err, val |-> FALSE]
                    ELSE Wut_match(condition, g.box, W)
           bad == {o \in objs : one(o).err # ""}
       IN IF bad # {} THEN [err |-> one(CHOOSE o \in bad : \A q \in bad : o <= q).err, ids |-> {}]
          ELSE [err |-> "", ids |-> {o \in objs : one(o).val}]

\* HashIndex.lookup
HashIndex_lookup(ix, p, val) ==
  IF val = None
  THEN IF has_none_set(p) THEN [err |-> "", ids |-> ix.none_set] ELSE [err |-> "AttributeError", ids |-> {}]
  ELSE to_set(tree_get(ix.tree, val))

\* RangeIndex.range: the buckets of the keys within the bounds, united
RangeIndex_range(ix, range) ==
  LET inside(k) == /\ (range.left.set => IF range.left.inclusive THEN k >= range.left.value ELSE k > range.left.value)
                   /\ (range.right.set => IF range.right.inclusive THEN k <= range.right.value ELSE k < range.right.value)
      keys == {k \in DOMAIN ix.tree : inside(k)}
      bad == {k \in keys : so_iterate(ix.tree[k]).err # ""}
  IN IF bad # {} THEN [err |-> so_iterate(ix.tree[CHOOSE k \in bad : \A j \in bad : k <= j]).err, ids |-> {}]
     ELSE [err |-> "", ids |-> UNION {so_iterate(ix.tree[k]).ids : k \in keys}]

\* Wut.execute with Wut.executors
RECURSIVE Wut_execute(_, _)
Wut_execute(plan, W) ==
  CASE plan.t = "ScanFilter" -> Wut_execute_filter(ListStore_keys(W.items), plan.condition, W)
    [] plan.t = "Filter" ->
         LET r == Wut_execute(plan.input, W) IN
         IF r.err # "" THEN r ELSE Wut_execute_filter(r.ids, plan.condition, W)
    [] plan.t \in {"Union", "Intersect"} ->
         LET rs == [i \in 1..Len(plan.inputs) |-> Wut_execute(plan.inputs[i], W)]
             bad == {i \in 1..Len(plan.inputs) : rs[i].err # ""}
         IN IF bad # {} THEN [err |-> rs[CHOOSE i \in bad : \A j \in bad : i <= j].err, ids |-> {}]
            ELSE IF Len(plan.inputs) = 0 THEN [err |-> "", ids |-> {}]
            ELSE IF plan.t = "Union" THEN [err |-> "", ids |-> UNION {rs[i].ids : i \in 1..Len(plan.inputs)}]
            ELSE [err |-> "", ids |-> {x \in rs[1].ids : \A i \in 1..Len(plan.inputs) : x \in rs[i].ids}]
    [] plan.t = "IndexLookup" -> HashIndex_lookup(W.index[plan.index], Indexes[plan.index], plan.value)
    [] plan.t = "IndexRange" -> RangeIndex_range(W.index[plan.index], plan.range)
    [] plan.t = "Empty" -> [err |-> "", ids |-> {}]
    [] OTHER -> [err |-> "ValueError:unsupported plan", ids |-> {}]

\* Wut.filter: plan, optimize, execute
Wut_filter(condition, W) == Wut_execute(Wut_optimize(Planner_plan(condition)), W)

\* The conditions the application queries with.
Atom(op, n, v) == BinOp(op, Attribute(n), Literal(v))
Atoms == {Atom(op, n, v) : op \in {"Eq", "Lt", "Le", "Gt", "Ge"}, n \in AttrNames, v \in Vals}
InAtoms == {BinOp("In", Attribute(n), Array(<<Literal(0), Literal(MaxVal)>>)) : n \in AttrNames}
Conds ==
  Atoms \cup InAtoms
    \cup {Not(Atom("Eq", n, 0)) : n \in AttrNames}
    \cup {BinOp(op, Atom("Eq", "a", 0), Atom("Eq", "b", v)) : op \in {"And", "Or"}, v \in Vals}
    \cup {BinOp("And", Atom("Ge", "a", 0), Atom("Lt", "a", v)) : v \in Vals}

\* The conditions the query action draws from.
QueryConds ==
  {Atom("Eq", "a", 0), Atom("Eq", "b", 0), Atom("Lt", "a", MaxVal), Not(Atom("Eq", "a", 0)),
   BinOp("And", Atom("Eq", "a", 0), Atom("Eq", "b", 0)),
   BinOp("Or", Atom("Eq", "a", 0), Atom("Eq", "b", 0))}

\* A query that consumes what it scans: the store is emptied as a side effect.
DrainingFilter(c) ==
  /\ UNCHANGED setvars
  /\ res' = Wut_filter(c, World)
  /\ last' = Done("filter", 0, res'.err)
  /\ items' = ListStore_clear(items)
  /\ UNCHANGED <<indexes, objattr, id_to_rowid, count, rowid_counter, index, member, handed, cur_plan>>

\* A query: the row-ids filter returns, or the exception it raises, go to res.
DoFilter(c) ==
  /\ UNCHANGED setvars
  /\ res' = Wut_filter(c, World)
  /\ last' = Done("filter", 0, res'.err)
  /\ UNCHANGED <<indexes, objattr, items, id_to_rowid, count, rowid_counter, index, member, handed, cur_plan>>

\* Wut.__init__ with no objects and the given indexes
Wut_init(ixs) ==
  /\ indexes = ixs
  /\ objattr \in [Objs -> [AttrNames -> AttrVals]]
  /\ items = << >>
  /\ id_to_rowid = EmptyMap
  /\ count = 0
  /\ rowid_counter = 0
  /\ index = [k \in 1..Len(ixs) |-> NewIndex]
  /\ last = Done("init", 0, "")
  /\ res = NoRes
  /\ member = {}
  /\ handed = {}
  /\ cur_plan = Empty

\* The objects a caller of the set operators holds: two arrays and two
\* hash-sets that overlap.
Pool ==
  << ESList(<<1, 2>>), ESList(<<2, 3>>),
     ESSet(1..(ARRAY_SIZE_MAX + 1)), ESSet(2..(ARRAY_SIZE_MAX + 2)) >>
NoCall == [op |-> "", args |-> << >>, ret |-> RNone, ids |-> {}]
NoKept == [valid |-> FALSE, alias |-> 0, ids |-> {}]
NoPlanObjects ==
  [heap |-> << >>, p |-> [t |-> "Empty"], q |-> [t |-> "Empty"], before |-> [t |-> "Empty"], first |-> [t |-> "Empty"], n |-> 0]
NoHyst == [op |-> "", elem |-> 0, before |-> "none", prev_down |-> FALSE, alt |-> 0, changes |-> 0]
NoIxCall == [ix |-> NewIndex, mem |-> EmptyMap, used |-> {}, op |-> "", pk |-> None, old |-> << >>, new |-> << >>, err |-> ""]

\* The caller's adaptive set is create() and no operator has been called.
Sets_init ==
  /\ eset = ESNone
  /\ heap = Pool
  /\ opcall = NoCall
  /\ kept = NoKept
  /\ ixcall = NoIxCall
  /\ hyst = NoHyst
  /\ pheap = NoPlanObjects

Init == Wut_init(DefaultIndexes) /\ Sets_init

Next ==
  \/ \E o \in Objs : Add(o)
  \/ \E o \in Objs : Discard(o)
  \/ \E o \in Objs : Refresh(o)
  \/ Clear
  \/ \E o \in Objs, n \in AttrNames, v \in AttrVals : SetAttr(o, n, v)
  \/ \E c \in QueryConds : DoFilter(c)

Spec == Init /\ [][Next]_vars

\* ---------------------------------------- the index loop of Wut.refresh
\* Wut.refresh from the loop over the indexes on (lines 281-294), run for the
\* box of a contained object o: each memorising index whose value changed is
\* refreshed with the memorised old value, and the memorised tuple is replaced
\* when the loop ends.
RefreshBox(o) ==
  /\ UNCHANGED setvars
  /\ id_from_obj(o) \in DOMAIN id_to_rowid
  /\ LET obj_sto == ListAt(items, id_to_rowid[id_from_obj(o)])
         r == refresh_loop(index, 1, obj_sto, objattr, << >>)
     IN /\ index' = r.ixs
        /\ last' = Done("refresh", o, r.err)
        /\ items' = IF r.err # "" THEN items
                    ELSE [items EXCEPT ![obj_sto.pk + 1] = [@ EXCEPT !.index_mem = r.im]]
  /\ res' = NoRes
  /\ UNCHANGED <<indexes, objattr, id_to_rowid, count, rowid_counter, member, handed, cur_plan>>

\* A collection whose unique index takes null keys, with the index loop of
\* refresh run on the boxes of its objects.
InitIndex == Wut_init(NullableUniqueIndexes) /\ Sets_init

NextIndex ==
  \/ \E o \in Objs : Add(o)
  \/ \E o \in Objs, n \in AttrNames, v \in AttrVals : SetAttr(o, n, v)
  \/ \E o \in Objs : RefreshBox(o)
  \/ Clear

SpecIndex == InitIndex /\ [][NextIndex]_vars

\* ---------------------------------------- the index loop of Wut.discard
\* Wut.discard from the removal of the identity mapping on (lines 261-272),
\* run for the box of a contained object o: each index removes the row-id
\* (with the memorised value when it memorises), then the box is deleted.
DiscardBox(o) ==
  /\ UNCHANGED setvars
  /\ id_from_obj(o) \in DOMAIN id_to_rowid
  /\ LET row_id == id_to_rowid[id_from_obj(o)]
         obj_sto == ListAt(items, row_id)
         r == remove_loop(index, 1, obj_sto, objattr)
         d == ListStore_delete(items, row_id)
     IN /\ id_to_rowid' = Del(id_to_rowid, id_from_obj(o))
        /\ index' = r.ixs
        /\ IF r.err # ""
           THEN /\ last' = Done("discard", o, r.err)
                /\ UNCHANGED <<items, count, member>>
           ELSE /\ items' = d.items
                /\ last' = Done("discard", o, d.err)
                /\ count' = IF d.err = "" THEN count - 1 ELSE count
                /\ member' = IF d.err = "" THEN member \ {o} ELSE member
  /\ res' = NoRes
  /\ UNCHANGED <<indexes, objattr, rowid_counter, handed, cur_plan>>

\* A collection whose hash index does not memorise: objects with a null a
\* whose b the application changes, discarded through Wut.discard and through
\* its index loop run on the object's own box.
InitUnmem ==
  /\ Wut_init(UnmemorisedIndexes)
  /\ Sets_init
  /\ \A o \in Objs : objattr[o]["a"] = None

NextUnmem ==
  \/ \E o \in Objs : Add(o)
  \/ \E o \in Objs, v \in AttrVals : SetAttr(o, "b", v)
  \/ \E o \in Objs : Discard(o)
  \/ \E o \in Objs : DiscardBox(o)
  \/ Clear

SpecUnmem == InitUnmem /\ [][NextUnmem]_vars

\* ------------------------------------------------ one index driven directly
\* An InvertedIndex: the attribute is a collection of keys, and the class has
\* no null set.
InvertedParams == [name |-> "a", kind |-> "InvertedIndex", none_allowed |-> TRUE, unique |-> FALSE, memorize |-> TRUE]

\* InvertedIndex._load_val / _store_val: the key list as it is
inverted_load_val(value) == value
inverted_store_val(value) == value

MaxKey == 2
IxKeys == 0..MaxKey
IxPks == 0..1
\* The attribute values of the objects: every collection of distinct keys, in
\* ascending order, and one that names a key twice.
KeyLists == {SortedSeq(S) : S \in SUBSET IxKeys} \cup {<<0, 0>>}

\* index.add(obj_sto, ctx) as Wut.add calls it for a new row-id; the key
\* list it returns is memorised only when it returns.
IndexAdd(pk, val) ==
  /\ pk \notin ixcall.used
  /\ LET r == HashIndex_add(ixcall.ix, InvertedParams, pk, val) IN
     ixcall' = [ix |-> r.ix,
                mem |-> IF r.err = "" THEN Put(ixcall.mem, pk, inverted_store_val(val)) ELSE ixcall.mem,
                used |-> ixcall.used \cup {pk},
                op |-> "add", pk |-> pk, old |-> << >>, new |-> val, err |-> r.err]
  /\ UNCHANGED <<eset, heap, opcall, kept, hyst, pheap, wutvars>>

\* index.remove(obj_sto, ctx, mem) as Wut.discard calls it with the memorised
\* key list; the row is gone from the collection whatever the index does.
IndexRemove(pk) ==
  /\ pk \in DOMAIN ixcall.mem
  /\ LET val == inverted_load_val(ixcall.mem[pk])
         r == HashIndex_remove(ixcall.ix, InvertedParams, pk, val) IN
     ixcall' = [ix |-> r.ix, mem |-> Del(ixcall.mem, pk), used |-> ixcall.used,
                op |-> "remove", pk |-> pk, old |-> val, new |-> << >>, err |-> r.err]
  /\ UNCHANGED <<eset, heap, opcall, kept, hyst, pheap, wutvars>>

\* index.refresh(obj_sto, ctx, mem) as Wut.refresh calls it: old_val is the
\* memorised key list, new_val the attribute's current keys; the new list is
\* memorised only when refresh returns.
IndexRefresh(pk, new_val) ==
  /\ pk \in DOMAIN ixcall.mem
  /\ LET old_val == inverted_load_val(ixcall.mem[pk])
         r == HashIndex_refresh(ixcall.ix, InvertedParams, pk, old_val, new_val) IN
     ixcall' = [ix |-> r.ix,
                mem |-> IF r.err = "" THEN Put(ixcall.mem, pk, inverted_store_val(new_val)) ELSE ixcall.mem,
                used |-> ixcall.used,
                op |-> "refresh", pk |-> pk, old |-> old_val, new |-> new_val, err |-> r.err]
  /\ UNCHANGED <<eset, heap, opcall, kept, hyst, pheap, wutvars>>

InitInverted ==
  /\ Wut_init(DefaultIndexes)
  /\ Sets_init
  /\ objattr = [o \in Objs |-> [n \in AttrNames |-> None]]

NextInverted ==
  \/ \E pk \in IxPks, val \in KeyLists : IndexAdd(pk, val)
  \/ \E pk \in IxPks : IndexRemove(pk)
  \/ \E pk \in IxPks, val \in KeyLists : IndexRefresh(pk, val)

SpecInverted == InitInverted /\ [][NextInverted]_vars

\* ------------------------------------------- plans a caller builds and optimizes
\* The bounds and ranges a caller builds plans from.
RangeBounds == {UNSET} \cup {Bound(v, inc) : v \in Vals, inc \in BOOLEAN}
Ranges == {Range(l, r) : l \in RangeBounds, r \in RangeBounds}

\* The conditions a caller plans: those of the queries, every conjunction and
\* disjunction of two range comparisons on the range-indexed attribute, and an
\* IN predicate beside another predicate.
RangeAtoms == {Atom(op, "a", v) : op \in {"Lt", "Le", "Gt", "Ge"}, v \in Vals}
PlanConds ==
  Conds
    \cup {BinOp(op, x, y) : op \in {"And", "Or"}, x \in RangeAtoms, y \in RangeAtoms}
    \cup {BinOp(op, x, Atom("Eq", "b", 0)) : op \in {"And", "Or"}, x \in InAtoms}

\* Wut.plan
DoPlan(c) ==
  /\ UNCHANGED setvars
  /\ cur_plan' = Planner_plan(c)
  /\ last' = Done("plan", 0, "")
  /\ UNCHANGED <<indexes, objattr, items, id_to_rowid, count, rowid_counter, index, res, member, handed>>

\* A plan built by hand: Intersect(inputs=[IndexRange(a, r1), IndexRange(a, r2)])
BuildIntersect(r1, r2) ==
  /\ UNCHANGED setvars
  /\ cur_plan' = SetOp("Intersect", <<IndexRange(1, r1), IndexRange(1, r2)>>)
  /\ last' = Done("build", 0, "")
  /\ UNCHANGED <<indexes, objattr, items, id_to_rowid, count, rowid_counter, index, res, member, handed>>

\* Wut.optimize on the plan the caller holds
DoOptimize ==
  /\ UNCHANGED setvars
  /\ last.op \in {"plan", "build", "optimize"}
  /\ cur_plan' = Wut_optimize(cur_plan)
  /\ last' = Done("optimize", 0, "")
  /\ UNCHANGED <<indexes, objattr, items, id_to_rowid, count, rowid_counter, index, res, member, handed>>

\* An empty collection whose caller plans, builds and optimizes plans.
InitPlan ==
  /\ Wut_init(DefaultIndexes)
  /\ Sets_init
  /\ objattr = [o \in Objs |-> [n \in AttrNames |-> None]]

NextPlan ==
  \/ \E c \in PlanConds : DoPlan(c)
  \/ \E r1 \in Ranges, r2 \in Ranges : BuildIntersect(r1, r2)
  \/ DoOptimize

SpecPlan == InitPlan /\ [][NextPlan]_vars

\* --------------------------------------------- scans the UseIndex rule sees
\* The conditions of the scans: every comparison of an attribute (a and b
\* indexed, c not) with a literal on either side, IN predicates, comparisons
\* of two attributes and of two literals, and a negation.  The literal
\* MaxVal + 1 is compared only from the left.
UseAttrs == {"a", "b", "c"}
UseConds ==
  {BinOp(op, Attribute(n), Literal(v)) : op \in {"Eq", "Ne", "Lt", "Le", "Gt", "Ge"}, n \in UseAttrs, v \in Vals}
    \cup {BinOp(op, Literal(v), Attribute(n)) : op \in {"Eq", "Ne", "Lt", "Le", "Gt", "Ge"}, n \in UseAttrs, v \in Vals}
    \cup {BinOp(op, Literal(MaxVal + 1), Attribute("a")) : op \in {"Lt", "Le", "Gt", "Ge"}}
    \cup {BinOp("In", Attribute(n), Array(<<Literal(0), Literal(MaxVal)>>)) : n \in UseAttrs}
    \cup {BinOp("In", Attribute(n), Array(<<Literal(0), Attribute("b")>>)) : n \in UseAttrs}
    \cup {BinOp("In", Literal(0), Attribute(n)) : n \in UseAttrs}
    \cup {BinOp(op, Attribute("a"), Attribute("b")) : op \in {"Eq", "Lt"}}
    \cup {BinOp(op, Literal(0), Literal(MaxVal)) : op \in {"Eq", "Lt"}}
    \cup {Not(Atom("Eq", n, 0)) : n \in UseAttrs}

\* A plan built by hand: ScanFilter(condition=c)
BuildScan(c) ==
  /\ UNCHANGED setvars
  /\ cur_plan' = ScanFilter(c)
  /\ last' = Done("build", 0, "")
  /\ UNCHANGED <<indexes, objattr, items, id_to_rowid, count, rowid_counter, index, res, member, handed>>

\* UseIndex()(plan, ctx) on the plan the caller built
DoUseIndex ==
  /\ UNCHANGED setvars
  /\ last.op = "build"
  /\ cur_plan' = Plan_transform("UseIndex", cur_plan)
  /\ last' = Done("useindex", 0, "")
  /\ UNCHANGED <<indexes, objattr, items, id_to_rowid, count, rowid_counter, index, res, member, handed>>

InitUse ==
  /\ Wut_init(TwoIndexesOnA)
  /\ Sets_init
  /\ objattr = [o \in Objs |-> [n \in AttrNames |-> None]]

NextUse ==
  \/ \E c \in UseConds : BuildScan(c)
  \/ DoUseIndex

SpecUse == InitUse /\ [][NextUse]_vars

\* --------------------------------------- a plan object optimized in place
\* The conditions the caller plans: those of SpecPlan and conjunctions and
\* disjunctions nested to the left and to the right.
NestedConds ==
  {BinOp(op1, BinOp(op2, Atom("Eq", "a", 0), Atom("Eq", "b", 0)), Atom("Lt", "a", MaxVal)) :
     op1 \in {"And", "Or"}, op2 \in {"And", "Or"}}
    \cup {BinOp(op1, Atom("Ge", "a", 0), BinOp(op2, Atom("Eq", "b", 0), Not(Atom("Eq", "a", 0)))) :
            op1 \in {"And", "Or"}, op2 \in {"And", "Or"}}
MaxOptimize == 2

\* p = Wut.plan(c)
PlanObject(c) ==
  /\ \E r \in {NewPlan(<< >>, Planner_plan(c))} :
       pheap' = [heap |-> r.heap, p |-> r.ret, q |-> r.ret, before |-> Planner_plan(c), first |-> Empty, n |-> 0]
  /\ last' = Done("plan", 0, "")
  /\ UNCHANGED <<eset, heap, opcall, kept, ixcall, hyst>>
  /\ UNCHANGED <<indexes, objattr, items, id_to_rowid, count, rowid_counter, index, res, member, handed, cur_plan>>

\* q = Wut.optimize(p)
OptimizeObject ==
  /\ last.op \in {"plan", "optimize"}
  /\ pheap.n < MaxOptimize
  /\ \E r \in {Wut_optimize_obj(pheap.heap, pheap.p)} :
       pheap' = [heap |-> r.heap, p |-> pheap.p, q |-> r.ret,
                 before |-> Deref(pheap.heap, pheap.p),
                 first |-> IF pheap.n = 0 THEN Deref(r.heap, r.ret) ELSE pheap.first,
                 n |-> pheap.n + 1]
  /\ last' = Done("optimize", 0, "")
  /\ UNCHANGED <<eset, heap, opcall, kept, ixcall, hyst>>
  /\ UNCHANGED <<indexes, objattr, items, id_to_rowid, count, rowid_counter, index, res, member, handed, cur_plan>>

InitObject == InitPlan

NextObject ==
  \/ \E c \in PlanConds \cup NestedConds : PlanObject(c)
  \/ OptimizeObject

SpecObject == InitObject /\ [][NextObject]_vars

\* ------------------------------------------ nested set operations merged
\* The plans a caller builds by hand: a set operation with a nested one as
\* its first or its second input, every pair of kinds, over two scans; three
\* levels of one kind; and a nested pair below a Filter.
MergeLeaves == {ScanFilter(Atom("Eq", "b", 0)), ScanFilter(Atom("Eq", "b", MaxVal))}
MergePlans ==
  {SetOp(k1, <<x, SetOp(k2, <<y, z>>)>>) : k1 \in SetOps, k2 \in SetOps, x \in MergeLeaves, y \in MergeLeaves, z \in MergeLeaves}
    \cup {SetOp(k1, <<SetOp(k2, <<y, z>>), x>>) : k1 \in SetOps, k2 \in SetOps, x \in MergeLeaves, y \in MergeLeaves, z \in MergeLeaves}
    \cup {SetOp(k, <<SetOp(k, <<SetOp(k, <<x, y>>), x>>), y>>) : k \in SetOps, x \in MergeLeaves, y \in MergeLeaves}
    \cup {Filter(Atom("Eq", "b", 0), SetOp(k, <<x, SetOp(k, <<x, y>>)>>)) : k \in SetOps, x \in MergeLeaves, y \in MergeLeaves}

\* A plan built by hand
BuildNested(p) ==
  /\ UNCHANGED setvars
  /\ cur_plan' = p
  /\ last' = Done("build", 0, "")
  /\ UNCHANGED <<indexes, objattr, items, id_to_rowid, count, rowid_counter, index, res, member, handed>>

\* MergeSetOps()(plan, ctx) on the plan the caller built
DoMerge ==
  /\ UNCHANGED setvars
  /\ last.op = "build"
  /\ cur_plan' = Plan_transform("MergeSetOps", cur_plan)
  /\ last' = Done("merge", 0, "")
  /\ UNCHANGED <<indexes, objattr, items, id_to_rowid, count, rowid_counter, index, res, member, handed>>

\* The objects have a null a and distinct values of b.
InitMerge ==
  /\ Init
  /\ objattr = [o \in Objs |-> [n \in AttrNames |-> IF n = "a" THEN None ELSE o - 1]]

NextMerge ==
  \/ \E o \in Objs : Add(o)
  \/ \E p \in MergePlans : BuildNested(p)
  \/ DoMerge

SpecMerge == InitMerge /\ [][NextMerge]_vars

\* ------------------------------------------------ plans a caller executes
\* The plans a caller hands to Wut.execute: scans over comparisons, over
\* conjunctions and disjunctions of two comparisons, an index lookup, Empty,
\* and every Intersect and Union of two of the leaves.
ExecAtoms == {Atom("Lt", "a", 0), Atom("Eq", "b", 0), Atom("Eq", "b", MaxVal)}
ExecLeaves == {Empty, IndexLookup(1, None)} \cup {ScanFilter(c) : c \in ExecAtoms}
ExecPlans ==
  ExecLeaves
    \cup {ScanFilter(BinOp(op, l, r)) : op \in {"And", "Or"}, l \in ExecAtoms, r \in ExecAtoms}
    \cup {SetOp(kind, <<x, y>>) : kind \in {"Intersect", "Union"}, x \in ExecLeaves, y \in ExecLeaves}

\* result = Wut.execute(p)
DoExecute(p) ==
  /\ UNCHANGED setvars
  /\ cur_plan' = p
  /\ res' = Wut_execute(p, World)
  /\ last' = Done("execute", 0, res'.err)
  /\ UNCHANGED <<indexes, objattr, items, id_to_rowid, count, rowid_counter, index, member, handed>>

\* The first object has a null a; the others have a and b set.
InitExec ==
  /\ Init
  /\ objattr = [o \in Objs |-> IF o = 1 THEN [n \in AttrNames |-> IF n = "a" THEN None ELSE 0]
                                       ELSE [n \in AttrNames |-> IF n = "a" THEN o - 2 ELSE o - 1]]

NextExec ==
  \/ \E o \in Objs : Add(o)
  \/ Clear
  \/ \E p \in ExecPlans : DoExecute(p)

SpecExec == InitExec /\ [][NextExec]_vars

\* ----------------------------------------- an adaptive set used on its own
\* The boxes a caller puts in the set, named by their pks, and the iterables
\* it creates sets from: empty, one box, the same box twice, two boxes, and
\* runs of boxes up to and past the array limit.  The operations that follow
\* take box 1, box 2 or the box at the edge of the set.
MaxElem == ARRAY_SIZE_MAX + 2
Iota(n) == [i \in 1..n |-> i]
CreateInputs == {<< >>, <<1>>, <<1, 1>>, <<1, 2>>, Iota(ARRAY_SIZE_MAX), Iota(ARRAY_SIZE_MAX + 1)}
Largest(a) == IF ESIds(a) = {} THEN 0 ELSE CHOOSE x \in ESIds(a) : \A y \in ESIds(a) : y <= x
Elems == 1..MaxElem
\* The box an operation is called with: box 1, box 2, or the box at the edge
\* of the set (the one after its largest for add, its largest for discard).
Picks == {"first", "second", "edge"}
Pick(w, edge) == CASE w = "first" -> 1 [] w = "second" -> 2 [] w = "edge" -> edge

\* eset = set_ops.create(s)
SetCreate(s) ==
  /\ UNCHANGED <<heap, opcall, kept, ixcall, hyst, pheap>>
  /\ eset' = so_create(s)
  /\ UNCHANGED wutvars

\* eset = set_ops.add(eset, box)
SetAdd(w) ==
  /\ UNCHANGED <<heap, opcall, kept, ixcall, hyst, pheap>>
  /\ Pick(w, Largest(eset) + 1) \in Elems
  /\ eset' = so_add(eset, ESBox(Pick(w, Largest(eset) + 1)))
  /\ UNCHANGED wutvars

\* eset = set_ops.discard(eset, box)
SetDiscard(w) ==
  /\ UNCHANGED <<heap, opcall, kept, ixcall, hyst, pheap>>
  /\ Pick(w, Largest(eset)) \in Elems
  /\ eset' = so_discard(eset, ESBox(Pick(w, Largest(eset))))
  /\ UNCHANGED wutvars

InitSet == InitPlan

NextSet ==
  \/ \E s \in CreateInputs : SetCreate(s)
  \/ \E w \in Picks : SetAdd(w)
  \/ \E w \in Picks : SetDiscard(w)

SpecSet == InitSet /\ [][NextSet]_vars

\* ------------------------------- an adaptive set around its size limits
\* The caller creates sets at the downgrade limit, at the array limit and
\* just past it, and adds or discards box 1 or the box at the edge of the set.
HystInputs == {Iota(SET_SIZE_MIN), Iota(ARRAY_SIZE_MAX), Iota(ARRAY_SIZE_MAX + 1)}
HystPicks == {"first", "edge"}
MaxRun == 4

\* Whether a call turned an array into a hash-set or back.
Flipped(a, b) == (a.tag = "list" /\ b.tag = "set") \/ (a.tag = "set" /\ b.tag = "list")

\* The caller's record after calling op with box x, the set going from a to b.
Seen_call(op, x, a, b) ==
  LET continues == hyst.elem = x /\ hyst.op \in {"add", "discard"} /\ hyst.op # op IN
  [op |-> op, elem |-> x, before |-> a.tag,
   prev_down |-> hyst.op = "discard" /\ hyst.before = "set" /\ a.tag = "list",
   alt |-> IF continues THEN hyst.alt + 1 ELSE 1,
   changes |-> (IF continues THEN hyst.changes ELSE 0) + (IF Flipped(a, b) THEN 1 ELSE 0)]

\* eset = set_ops.create(s)
HystCreate(s) ==
  /\ eset' = so_create(s)
  /\ hyst' = [NoHyst EXCEPT !.op = "create", !.before = eset.tag]
  /\ UNCHANGED <<heap, opcall, kept, ixcall, pheap, wutvars>>

\* eset = set_ops.add(eset, box)
HystAdd(w) ==
  LET x == Pick(w, Largest(eset) + 1) IN
  /\ x \in Elems
  /\ (hyst.elem = x /\ hyst.op = "discard") => hyst.alt < MaxRun
  /\ eset' = so_add(eset, ESBox(x))
  /\ hyst' = Seen_call("add", x, eset, eset')
  /\ UNCHANGED <<heap, opcall, kept, ixcall, pheap, wutvars>>

\* eset = set_ops.discard(eset, box)
HystDiscard(w) ==
  LET x == Pick(w, Largest(eset)) IN
  /\ x \in Elems
  /\ (hyst.elem = x /\ hyst.op = "add") => hyst.alt < MaxRun
  /\ eset' = so_discard(eset, ESBox(x))
  /\ hyst' = Seen_call("discard", x, eset, eset')
  /\ UNCHANGED <<heap, opcall, kept, ixcall, pheap, wutvars>>

InitHyst == InitPlan

NextHyst ==
  \/ \E s \in HystInputs : HystCreate(s)
  \/ \E w \in HystPicks : HystAdd(w)
  \/ \E w \in HystPicks : HystDiscard(w)

SpecHyst == InitHyst /\ [][NextHyst]_vars

\* ------------------------------------------- the pure set operators
\* The references a caller passes: None, two boxes and the objects it holds.
\* The operators that take *bs are called with one or two of them; a second
\* one is None, the second array or the second hash-set.
Refs == {RNone, RBox(1), RBox(ARRAY_SIZE_MAX + 2)} \cup {RObj(n) : n \in 1..Len(Pool)}
RefLists == {<<b>> : b \in Refs} \cup {<<b1, b2>> : b1 \in Refs, b2 \in {RNone, RObj(2), RObj(4)}}

\* What a call of a set operator leaves: the objects the caller holds are as
\* the call left them, and what the call allocated lives as long as the
\* caller looks at the result.
Kept(r) == SubSeq(r.heap, 1, Len(heap))
Returned(op, args, r) == [op |-> op, args |-> args, ret |-> r.ret, ids |-> RefIds(r.heap, r.ret)]

\* set_ops.union(a, *bs)
CallUnion(a, bs) ==
  /\ heap' = Kept(so_union(heap, a, bs))
  /\ opcall' = Returned("union", <<a>> \o bs, so_union(heap, a, bs))
  /\ UNCHANGED <<eset, kept, ixcall, hyst, pheap, wutvars>>

\* set_ops.intersection(a, *bs)
CallIntersection(a, bs) ==
  /\ heap' = Kept(so_intersection(heap, a, bs))
  /\ opcall' = Returned("intersection", <<a>> \o bs, so_intersection(heap, a, bs))
  /\ UNCHANGED <<eset, kept, ixcall, hyst, pheap, wutvars>>

\* set_ops.difference(a, *bs)
CallDifference(a, bs) ==
  /\ heap' = Kept(so_difference(heap, a, bs))
  /\ opcall' = Returned("difference", <<a>> \o bs, so_difference(heap, a, bs))
  /\ UNCHANGED <<eset, kept, ixcall, hyst, pheap, wutvars>>

\* set_ops.symmetric_difference(a, b)
CallSymmetricDifference(a, b) ==
  /\ heap' = Kept(so_symmetric_difference(heap, a, b))
  /\ opcall' = Returned("symmetric_difference", <<a, b>>, so_symmetric_difference(heap, a, b))
  /\ UNCHANGED <<eset, kept, ixcall, hyst, pheap, wutvars>>

InitOps == InitPlan

NextOps ==
  \/ \E a \in Refs, bs \in RefLists : CallUnion(a, bs)
  \/ \E a \in Refs, bs \in RefLists : CallIntersection(a, bs)
  \/ \E a \in Refs, bs \in RefLists : CallDifference(a, bs)
  \/ \E a \in Refs, b \in Refs : CallSymmetricDifference(a, b)

SpecOps == InitOps /\ [][NextOps]_vars

\* ------------------------------------------------- results a caller keeps
\* The object Wut.execute returns for plan: k when it is the null set of index
\* k itself (HashIndex.lookup(None) returns self.__none_set; a set operation
\* over one input and a Filter on a true Literal pass their input on), 0 when
\* it is a set the call built.
RECURSIVE execute_alias(_)
execute_alias(plan) ==
  CASE plan.t = "IndexLookup" ->
         IF plan.value = None /\ has_none_set(Indexes[plan.index]) THEN plan.index ELSE 0
    [] plan.t \in {"Union", "Intersect"} ->
         IF Len(plan.inputs) = 1 THEN execute_alias(plan.inputs[1]) ELSE 0
    [] plan.t = "Filter" ->
         IF plan.condition.t = "Literal" /\ plan.condition.value = TRUE THEN execute_alias(plan.input) ELSE 0
    [] OTHER -> 0

\* What the caller reads from the result it keeps.
Seen(h, ixs) == IF h.alias # 0 THEN ixs[h.alias].none_set ELSE h.ids

\* The conditions whose results the caller keeps.
SnapConds == {Atom("Eq", "a", None), Atom("Eq", "b", 0), Atom("Ge", "a", 0)}

\* result = Wut.filter(c), kept by the caller
HoldFilter(c) ==
  LET r == Wut_filter(c, World) IN
  /\ res' = r
  /\ last' = Done("filter", 0, r.err)
  /\ kept' = IF r.err # "" THEN NoKept
             ELSE [valid |-> TRUE, alias |-> execute_alias(Wut_optimize(Planner_plan(c))), ids |-> r.ids]
  /\ UNCHANGED <<eset, heap, opcall, ixcall, hyst, pheap>>
  /\ UNCHANGED <<indexes, objattr, items, id_to_rowid, count, rowid_counter, index, member, handed, cur_plan>>

\* result.add(x) on the result the caller keeps
MutateKept(x) ==
  /\ kept.valid
  /\ x \notin Seen(kept, index)
  /\ IF kept.alias # 0
     THEN /\ index' = [index EXCEPT ![kept.alias].none_set = @ \cup {x}]
          /\ UNCHANGED kept
     ELSE /\ kept' = [kept EXCEPT !.ids = @ \cup {x}]
          /\ UNCHANGED index
  /\ last' = Done("result.add", 0, "")
  /\ res' = NoRes
  /\ UNCHANGED <<eset, heap, opcall, ixcall, hyst, pheap>>
  /\ UNCHANGED <<indexes, objattr, items, id_to_rowid, count, rowid_counter, member, handed, cur_plan>>

\* The collection is empty; the application's objects have a null a and
\* distinct values of b.
InitSnap ==
  /\ Init
  /\ objattr = [o \in Objs |-> [n \in AttrNames |-> IF n = "a" THEN None ELSE o - 1]]

NextSnap ==
  \/ \E o \in Objs : Add(o)
  \/ \E o \in Objs : Discard(o)
  \/ \E o \in Objs : Refresh(o)
  \/ Clear
  \/ \E c \in SnapConds : HoldFilter(c)
  \/ \E x \in 0..MaxRowId : MutateKept(x)

SpecSnap == InitSnap /\ [][NextSnap]_vars

\* ------------------------------------------------------- what a caller sees
\* Wut.__contains__
Wut_contains(o) == id_from_obj(o) \in DOMAIN id_to_rowid

\* Wut.__len__
Wut_len == count

\* Wut.__iter__: the objects of the store's boxes, in the store's order
Wut_iter == [i \in 1..Len(ListStore_values(items)) |-> ListStore_values(items)[i].obj]

\* Wut.sort_ids(ids, ordering) as [err, seq]; ordering is a sequence of
\* [name, desc].  A non-empty ordering stops at `assert False, 'broken rn'`.
\* With the empty ordering each key is WutSortKey(self, [], False, id): the
\* constructor fetches the box with store[id], and __lt__ compares the pks.
Wut_sort_ids(ids, ordering, W) ==
  IF ordering # << >> THEN [err |-> "AssertionError", seq |-> << >>]
  ELSE LET bad == {i \in ids : ListStore_get(W.items, i).err # ""} IN
       IF bad # {} THEN [err |-> ListStore_get(W.items, CHOOSE i \in bad : \A j \in bad : i <= j).err, seq |-> << >>]
       ELSE [err |-> "", seq |-> SortedSeq({ListStore_get(W.items, i).box.pk : i \in ids})]

\* The row-ids index ix keeps under key: the null set for the null key, the
\* bucket of the tree otherwise.
BucketIds(ix, key) == IF key = None THEN ix.none_set ELSE ESIds(tree_get(ix.tree, key))

\* The positions of the store that hold a box, and the boxes there.
LiveBoxes == {items[i] : i \in {j \in 1..Len(items) : items[j] # NoItem}}
BoxesOf(o) == {b \in LiveBoxes : b.obj = o}

\* No contained object has an attribute change that refresh has not been
\* called for: the memorised values are the objects' current values.
Refreshed ==
  \A b \in LiveBoxes : b.has_mem =>
    \A k \in IdxNums : Indexes[k].memorize => b.index_mem[mem_number(k)] = objattr[b.obj][Indexes[k].name]

\* Every add so far has run to its end: no box is left without its memorised
\* values.
AllAddsCompleted == \A b \in LiveBoxes : b.has_mem

\* What a condition means for an object with attribute values a.
RECURSIVE Holds(_, _)
Holds(c, a) ==
  CASE c.t = "And" -> Holds(c.left, a) /\ Holds(c.right, a)
    [] c.t = "Or" -> Holds(c.left, a) \/ Holds(c.right, a)
    [] c.t = "Not" -> ~Holds(c.operand, a)
    [] c.t = "In" -> a[c.left.name] \in {c.right.items[i].value : i \in 1..Len(c.right.items)}
    [] c.t = "Eq" -> a[c.left.name] = c.right.value
    [] c.t = "Lt" -> a[c.left.name] < c.right.value
    [] c.t = "Le" -> a[c.left.name] <= c.right.value
    [] c.t = "Gt" -> a[c.left.name] > c.right.value
    [] c.t = "Ge" -> a[c.left.name] >= c.right.value

\* The attributes a condition compares by order; a null value there is a
\* predicate error, which the claims about results leave aside.
RECURSIVE OrderedAttrs(_)
OrderedAttrs(c) ==
  CASE c.t \in {"And", "Or"} -> OrderedAttrs(c.left) \cup OrderedAttrs(c.right)
    [] c.t = "Not" -> OrderedAttrs(c.operand)
    [] c.t \in {"Lt", "Le", "Gt", "Ge"} -> {c.left.name}
    [] OTHER -> {}
Comparable(c) == \A o \in Objs, n \in OrderedAttrs(c) : objattr[o][n] # None

\* ------------------------------------------------------------------ claims
\* C1: for every reachable collection state (attribute changes refreshed) and
\* every condition over =, <, <=, >, >=, IN, AND, OR, NOT, filter returns
\* exactly the row-ids of the contained objects for which the condition holds.
\* Stated here for the states in which no add has failed.
C1_FilterExact ==
  \A c \in Conds :
    (Refreshed /\ AllAddsCompleted /\ Comparable(c)) =>
      LET r == Wut_filter(c, World) IN
      /\ r.err = ""
      /\ r.ids = {id_to_rowid[id_from_obj(o)] : o \in {q \in Objs : Wut_contains(q) /\ Holds(c, objattr[q])}}

\* C2: for each index and each key the index can hold (the null key where the
\* index has a null set), the bucket stored under the key is exactly the set
\* of row-ids of the live boxes whose indexed value contains the key.
C2_BucketsExact ==
  Refreshed =>
    \A k \in IdxNums, key \in AttrVals :
      (key = None => has_none_set(Indexes[k])) =>
        BucketIds(index[k], key) = {b.pk : b \in {x \in LiveBoxes : key \in SeqRange(extract_val(x, k, FALSE, objattr))}}

\* C3: an add that fails a unique check leaves storage, every index, the
\* identity map, the count and the row-id counter as they were before the call.
C3_FailedAddAtomic ==
  [][(last'.op = "add" /\ last'.err = "ValueError:unique") =>
       (items' = items /\ index' = index /\ id_to_rowid' = id_to_rowid /\ count' = count /\ rowid_counter' = rowid_counter)]_vars

\* C4: discard of a contained object completes, drops its identity mapping,
\* deletes its box, and leaves its row-id in no bucket or null set of any index.
C4_DiscardRemoves ==
  [][(last'.op = "discard" /\ Wut_contains(last'.obj)) =>
       LET o == last'.obj
           r == id_to_rowid[id_from_obj(o)]
       IN /\ last'.err = ""
          /\ id_from_obj(o) \notin DOMAIN id_to_rowid'
          /\ r \notin ListStore_keys(items')
          /\ \A k \in IdxNums, key \in AttrVals : r \notin BucketIds(index'[k], key)]_vars

\* C5: after an indexed attribute of a contained object changed from key k1 to
\* key k2, refresh moves its row-id from bucket k1 to bucket k2, memorises k2,
\* and leaves the bucket membership of every other row-id unchanged.
C5_RefreshMoves ==
  [][(last'.op = "refresh" /\ Wut_contains(last'.obj)) =>
       LET o == last'.obj
           r == id_to_rowid[id_from_obj(o)]
       IN \A k \in IdxNums :
            LET k1 == items[r + 1].index_mem[mem_number(k)]
                k2 == objattr[o][Indexes[k].name]
            IN (Indexes[k].memorize /\ k1 # k2 /\ k1 # None /\ k2 # None) =>
                 /\ last'.err = ""
                 /\ r \notin BucketIds(index'[k], k1)
                 /\ r \in BucketIds(index'[k], k2)
                 /\ items'[r + 1].index_mem[mem_number(k)] = k2
                 /\ \A key \in AttrVals : BucketIds(index'[k], key) \ {r} = BucketIds(index[k], key) \ {r}]_vars

\* C6: refresh of an object that is not in the collection raises
\* ValueError('item not found') and leaves the collection and the indexes unchanged.
C6_RefreshAbsent ==
  [][(last'.op = "refresh" /\ ~Wut_contains(last'.obj)) =>
       /\ last'.err = "ValueError:item not found"
       /\ items' = items /\ index' = index /\ id_to_rowid' = id_to_rowid
       /\ count' = count /\ rowid_counter' = rowid_counter]_vars

\* C8: in a unique index, adding or refreshing to a key another object holds
\* fails with the unique-violation error, and every bucket of a unique index
\* holds at most one row-id.  The add is one that reaches the unique index:
\* no add has failed before and no earlier index refuses the object.
AddReaches(o, k) ==
  /\ AllAddsCompleted
  /\ \A j \in 1..(k - 1) :
       LET key == objattr[o][Indexes[j].name] IN
       IF key = None THEN has_none_set(Indexes[j]) ELSE key \notin DOMAIN index[j].tree
C8_UniqueEnforced ==
  [][/\ \A k \in IdxNums, key \in Vals : Indexes[k].unique => Cardinality(BucketIds(index'[k], key)) <= 1
     /\ \A k \in IdxNums :
          LET o == last'.obj
              key == objattr[o][Indexes[k].name]
              mine == IF Wut_contains(o) THEN {id_to_rowid[id_from_obj(o)]} ELSE {}
              held == Indexes[k].unique /\ key # None /\ BucketIds(index[k], key) \ mine # {}
          IN /\ (last'.op = "add" /\ ~Wut_contains(o) /\ AddReaches(o, k) /\ held) => last'.err = "ValueError:unique"
             /\ (last'.op = "refresh" /\ Wut_contains(o) /\ held) => last'.err = "ValueError:unique"]_vars

\* C9: an object is contained iff a box holding it exists in storage iff its
\* row-id is in the bucket of every index for its indexed value, and it is
\* contained exactly when it was added and not since discarded or cleared.
C9_ContainedIffStored ==
  \A o \in Objs :
    /\ Wut_contains(o) <=> BoxesOf(o) # {}
    /\ BoxesOf(o) # {} <=>
         \E b \in BoxesOf(o) : \A k \in IdxNums :
           \A key \in SeqRange(extract_val(b, k, b.has_mem, objattr)) : b.pk \in BucketIds(index[k], key)
    /\ Wut_contains(o) <=> o \in member

\* C10: len(collection) is the number of objects added and not since discarded
\* or cleared, the number of identity-map entries and the number of live boxes.
C10_LenCounts ==
  /\ Wut_len = Cardinality(member)
  /\ Wut_len = Cardinality(DOMAIN id_to_rowid)
  /\ Wut_len = Cardinality(LiveBoxes)

\* C7: a refresh that fails with a unique-constraint violation performs no
\* partial mutation: every index and every box is as before the call, and the
\* object's row-id is still in the bucket of its memorised value in every
\* index.
C7_RefreshAtomic ==
  [][(last'.op = "refresh" /\ last'.err = "ValueError:unique") =>
       LET o == last'.obj
           box == ListAt(items', id_to_rowid[id_from_obj(o)])
       IN /\ index' = index
          /\ items' = items
          /\ \A k \in IdxNums : Indexes[k].memorize =>
               box.pk \in BucketIds(index'[k], box.index_mem[mem_number(k)])]_vars

\* C11: add of an already-contained object and discard of a non-contained
\* object raise nothing and leave storage, every index, the identity map, the
\* count and the row-id counter unchanged.
C11_SilentNoOps ==
  [][((last'.op = "add" /\ Wut_contains(last'.obj)) \/ (last'.op = "discard" /\ ~Wut_contains(last'.obj))) =>
       /\ last'.err = ""
       /\ items' = items /\ index' = index /\ id_to_rowid' = id_to_rowid
       /\ count' = count /\ rowid_counter' = rowid_counter]_vars

\* An add of a contained object has just returned: the object's row-id is not
\* the newest one, so this add allocated nothing.
C11_ReAddSeen ==
  /\ last.op = "add" /\ last.err = ""
  /\ Wut_contains(last.obj)
  /\ id_to_rowid[id_from_obj(last.obj)] < rowid_counter - 1

\* C12: row-ids are never reused: every box created by add receives a row-id
\* strictly greater than every row-id handed to an earlier box (handed records
\* them, failed adds included), and the row-id counter never decreases, clear
\* included.
BoxCreated ==
  /\ last'.op = "add"
  /\ Len(items') > rowid_counter
  /\ items'[rowid_counter + 1] # NoItem
  /\ (Len(items) > rowid_counter => items[rowid_counter + 1] = NoItem)
C12_RowIdsNeverReused ==
  [][/\ rowid_counter' >= rowid_counter
     /\ BoxCreated => \A r \in handed : items'[rowid_counter + 1].pk > r]_vars

\* C13: after clear the collection is empty and every index is empty: lookup
\* of any key, the null key on an index that allows nulls included, and the
\* unbounded range query return no row-ids.
C13_ClearEmpties ==
  [][last'.op = "clear" =>
       /\ count' = 0 /\ id_to_rowid' = EmptyMap /\ ListStore_keys(items') = {}
       /\ \A k \in IdxNums :
            /\ \A key \in AttrVals :
                 (key = None => has_none_set(Indexes[k])) =>
                   HashIndex_lookup(index'[k], Indexes[k], key) = [err |-> "", ids |-> {}]
            /\ Indexes[k].kind = "RangeIndex" =>
                 RangeIndex_range(index'[k], Range(UNSET, UNSET)) = [err |-> "", ids |-> {}]]_vars

\* C14: executing the optimized plan returns the same row-id set as executing
\* the unoptimized plan, for every condition and every reachable state.
\* Stated here for the states in which no add has failed, every attribute
\* change was refreshed and the condition compares no null value by order.
C14_OptimizePreserves ==
  \A c \in Conds :
    (Refreshed /\ AllAddsCompleted /\ Comparable(c)) =>
      Wut_execute(Wut_optimize(Planner_plan(c)), World) = Wut_execute(Planner_plan(c), World)

\* C15: inside an Intersect, two IndexRange children on the same index are
\* combined into one IndexRange whose range is the intersection of the two:
\* each bound is the tighter of the two, and for equal bound values it is
\* inclusive only if both are, whatever the order of the children.
TighterBound(x, y, greater) ==
  IF ~x.set THEN y
  ELSE IF ~y.set THEN x
  ELSE IF x.value = y.value THEN Bound(x.value, x.inclusive /\ y.inclusive)
  ELSE IF (IF greater THEN x.value > y.value ELSE x.value < y.value) THEN x
  ELSE y
RangeMeet(r1, r2) == Range(TighterBound(r1.left, r2.left, TRUE), TighterBound(r1.right, r2.right, FALSE))
RangeIsEmpty(r) ==
  /\ r.left.set /\ r.right.set
  /\ \/ r.left.value > r.right.value
     \/ r.left.value >= r.right.value /\ ~(r.left.inclusive /\ r.right.inclusive)
C15_RangesIntersected ==
  [][(last.op = "build" /\ last'.op = "optimize") =>
       LET meet == RangeMeet(cur_plan.inputs[1].range, cur_plan.inputs[2].range) IN
       ~RangeIsEmpty(meet) => cur_plan' = IndexRange(1, meet)]_vars

\* C16: conjunction and disjunction are commutative at the query level:
\* filter(a AND b) = filter(b AND a) and filter(a OR b) = filter(b OR a) in
\* every state, range comparisons on the same indexed attribute included.
\* Two failing queries count as equal whatever they raise.  Stated here for
\* the states in which no add has failed, every attribute change was
\* refreshed and no null value is compared by order.
Outcome(r) == IF r.err # "" THEN [failed |-> TRUE, ids |-> {}] ELSE [failed |-> FALSE, ids |-> r.ids]
CommuteAtoms == RangeAtoms \cup {Atom("Eq", "a", 0), Atom("Eq", "b", 0)}
C16_AndOrCommute ==
  \A op \in {"And", "Or"}, x \in CommuteAtoms, y \in CommuteAtoms :
    (Refreshed /\ AllAddsCompleted /\ Comparable(BinOp(op, x, y))) =>
      Outcome(Wut_filter(BinOp(op, x, y), World)) = Outcome(Wut_filter(BinOp(op, y, x), World))

\* C17: the default optimizer chain is idempotent: for every plan the planner
\* produces, optimizing the optimized plan gives a structurally equal plan.
C17_OptimizeIdempotent ==
  [][(last.op = "plan" /\ last'.op = "optimize") => Wut_optimize(cur_plan') = cur_plan']_vars

\* C18: an Intersect of IndexRange children on the same index is replaced by
\* Empty exactly when the combination of their ranges is empty (left > right,
\* or left >= right with an exclusive bound), and executing the result of the
\* empty case yields no row-ids.
C18_EmptyIffDisjoint ==
  [][(last.op = "build" /\ last'.op = "optimize") =>
       LET meet == RangeMeet(cur_plan.inputs[1].range, cur_plan.inputs[2].range) IN
       /\ RangeIsEmpty(meet) <=> cur_plan' = Empty
       /\ RangeIsEmpty(meet) => Wut_execute(cur_plan', World) = [err |-> "", ids |-> {}]]_vars

\* C19: executing a Difference plan returns the row-ids of its first child
\* minus the union of the row-ids of all remaining children.  Stated for
\* Difference plans over two and three table scans by equality, which
\* execute without error on their own in every state.
ScanChildren == {ScanFilter(Atom("Eq", n, v)) : n \in AttrNames, v \in Vals}
C19_DifferenceExecutes ==
  \A p1 \in ScanChildren, p2 \in ScanChildren, p3 \in ScanChildren :
    LET r1 == Wut_execute(p1, World)
        r2 == Wut_execute(p2, World)
        r3 == Wut_execute(p3, World)
    IN /\ r1.err = "" /\ r2.err = "" /\ r3.err = ""
       /\ Wut_execute(SetOp("Difference", <<p1, p2>>), World) = [err |-> "", ids |-> r1.ids \ r2.ids]
       /\ Wut_execute(SetOp("Difference", <<p1, p2, p3>>), World) = [err |-> "", ids |-> r1.ids \ (r2.ids \cup r3.ids)]

\* C20: iterating the collection yields exactly the contained objects, each
\* once, in ascending row-id order, after any sequence of add, discard and
\* clear.
C20_IterInRowIdOrder ==
  /\ SeqRange(Wut_iter) = {o \in Objs : Wut_contains(o)}
  /\ \A i, j \in 1..Len(Wut_iter) :
       i < j => /\ Wut_iter[i] # Wut_iter[j]
                /\ id_to_rowid[id_from_obj(Wut_iter[i])] < id_to_rowid[id_from_obj(Wut_iter[j])]

Orderings ==
  {<< >>} \cup {<<[name |-> n, desc |-> d]>> : n \in AttrNames, d \in BOOLEAN}
          \cup {<<[name |-> "a", desc |-> d1], [name |-> "b", desc |-> d2]>> : d1 \in BOOLEAN, d2 \in BOOLEAN}
IndexNamed(n) == CHOOSE k \in IdxNums : Indexes[k].name = n
MemOf(id, n) == ListAt(items, id).index_mem[mem_number(IndexNamed(n))]
RECURSIVE SortsBefore(_, _, _, _)
SortsBefore(x, y, ordering, rowid_desc) ==
  IF ordering = << >> THEN (IF rowid_desc THEN x > y ELSE x < y)
  ELSE LET sm == MemOf(x, Head(ordering).name)
           om == MemOf(y, Head(ordering).name)
       IN IF sm < om THEN ~Head(ordering).desc
          ELSE IF sm > om THEN Head(ordering).desc
          ELSE SortsBefore(x, y, Tail(ordering), rowid_desc)
Sortable == {i \in ListStore_keys(items) : items[i + 1].has_mem /\ \A j \in 1..Len(items[i + 1].index_mem) : items[i + 1].index_mem[j] # None}
C22_SortIdsLexicographic ==
  \A ids \in SUBSET Sortable, ordering \in Orderings :
    LET r == Wut_sort_ids(ids, ordering, World)
        rowid_desc == ordering # << >> /\ ordering[Len(ordering)].desc
    IN /\ r.err = ""
       /\ Len(r.seq) = Cardinality(ids)
       /\ SeqRange(r.seq) = ids
       /\ \A i, j \in 1..Len(r.seq) : i < j => SortsBefore(r.seq[i], r.seq[j], ordering, rowid_desc)

\* C23: after any sequence of create, add and discard on an adaptive set its
\* representation matches its size: the null sentinel iff it has no element,
\* a raw element iff one, an array only with 2..ARRAY_SIZE_MAX distinct
\* elements, a hash-set only with more than ARRAY_SIZE_MAX elements.
C23_RepresentationMatchesSize ==
  LET n == Cardinality(ESIds(eset)) IN
  /\ eset.tag = "none" <=> n = 0
  /\ eset.tag = "box" <=> n = 1
  /\ eset.tag = "list" => (Len(eset.seq) = n /\ n >= 2 /\ n <= ARRAY_SIZE_MAX)
  /\ eset.tag = "set" => n > ARRAY_SIZE_MAX

\* C24: union, intersection, difference and symmetric_difference never change
\* an argument: after the call every list and set the caller holds has the
\* elements and the representation it had before, and a list or set that is
\* returned is either one of the arguments or an object the call allocated.
C24_OperatorsKeepInputs ==
  [][opcall' # opcall =>
       /\ heap' = heap
       /\ opcall'.ret.kind = "obj" =>
            \/ opcall'.ret.at > Len(heap)
            \/ opcall'.ret \in SeqRange(opcall'.args)]_vars
C24_SetArgumentGrown ==
  /\ opcall.op = "union"
  /\ opcall.args[1] = RObj(3)
  /\ opcall.ids # RefIds(heap, RObj(3))
  /\ opcall.ret.at > Len(heap)

\* C25: when a condition is evaluated against a box, an Attribute that is the
\* key of a memorising index is read from the box's memorised value, so a
\* ScanFilter on that attribute and a lookup in the index select the same
\* stored rows (whenever both complete), also for an object whose attribute
\* changed without a refresh.
C25_ScanReadsMemory ==
  AllAddsCompleted =>
    \A k \in IdxNums :
      Indexes[k].memorize =>
        /\ \A b \in LiveBoxes :
             Wut_match(Attribute(Indexes[k].name), b, World) = [err |-> "", val |-> b.index_mem[mem_number(k)]]
        /\ \A v \in AttrVals :
             LET scan == Wut_execute(ScanFilter(BinOp("Eq", Attribute(Indexes[k].name), Literal(v))), World)
                 look == Wut_execute(IndexLookup(k, v), World)
             IN (scan.err = "" /\ look.err = "") =>
                  \A b \in LiveBoxes : b.pk \in scan.ids <=> b.pk \in look.ids

\* C26: after an add that fails (unique violation or disallowed null key) the
\* collection remains usable: the next add of a new object whose keys conflict
\* with nothing (no null key where nulls are not taken, no key a unique index
\* already holds) succeeds, gets a row-id never handed out before, and the
\* object is found by a filter on its key.
NonConflicting(o) ==
  \A k \in IdxNums :
    LET key == objattr[o][Indexes[k].name] IN
    /\ key = None => has_none_set(Indexes[k])
    /\ (Indexes[k].unique /\ key # None) => key \notin DOMAIN index[k].tree
C26_UsableAfterFailedAdd ==
  [][(/\ last.op = "add"
      /\ last.err \in {"ValueError:unique", "AttributeError"}
      /\ last'.op = "add"
      /\ ~Wut_contains(last'.obj)
      /\ NonConflicting(last'.obj)) =>
       LET o == last'.obj
           W == [items |-> items', objattr |-> objattr', index |-> index']
           r == Wut_filter(Atom("Eq", "b", objattr[o]["b"]), W)
       IN /\ last'.err = ""
          /\ id_from_obj(o) \in DOMAIN id_to_rowid'
          /\ id_to_rowid'[id_from_obj(o)] \notin handed
          /\ r.err = ""
          /\ id_to_rowid'[id_from_obj(o)] \in r.ids]_vars

\* C27: the row-id set a query returns is a snapshot: a later add, discard,
\* refresh or clear does not change what the caller reads from a result it
\* kept, and adding to a kept result changes no index bucket or null set.
C27_ResultIsSnapshot ==
  [][/\ (kept.valid /\ last'.op \in {"add", "discard", "refresh", "clear"}) =>
          Seen(kept', index') = Seen(kept, index)
     /\ last'.op = "result.add" => index' = index]_vars

\* C28: for an index that does not memorise, discard of a contained object
\* removes its row-id from the bucket it was inserted under: after the
\* discard the row-id is in no bucket and not in the null set of that index,
\* also when the attribute changed between add and discard.
C28_UnmemorisedDiscard ==
  [][(last'.op = "discard" /\ Wut_contains(last'.obj)) =>
       LET r == id_to_rowid[id_from_obj(last'.obj)] IN
       \A k \in IdxNums :
         ~Indexes[k].memorize => \A key \in AttrVals : r \notin BucketIds(index'[k], key)]_vars

\* C29: index refresh with old key list old and new key list new takes the
\* row-id out of exactly the buckets of old - new and puts it into exactly
\* the buckets of new - old; the buckets of keys in both lists and of keys in
\* neither are left as they were.
C29_RefreshTouchesDifference ==
  [][ixcall'.op = "refresh" =>
       LET old == SeqRange(ixcall'.old)
           new == SeqRange(ixcall'.new)
           pk == ixcall'.pk
           before(k) == ESIds(tree_get(ixcall.ix.tree, k))
           after(k) == ESIds(tree_get(ixcall'.ix.tree, k))
       IN \A k \in IxKeys :
            /\ k \in old \ new => after(k) = before(k) \ {pk}
            /\ k \in new \ old => after(k) = before(k) \cup {pk}
            /\ (k \in old \cap new \/ k \notin old \cup new) =>
                 tree_get(ixcall'.ix.tree, k) = tree_get(ixcall.ix.tree, k)]_vars

\* C30: no index maps a key to an empty bucket, and after any sequence of
\* add, remove and refresh the keys of the index are exactly the keys held by
\* at least one live row (a row that was added and not discarded since).
C30_KeysAreHeldKeys ==
  LET tree == ixcall.ix.tree
      live == DOMAIN ixcall.mem
  IN /\ \A k \in DOMAIN tree : ESIds(tree[k]) # {}
     /\ DOMAIN tree = {k \in IxKeys : \E pk \in live : k \in SeqRange(ixcall.mem[pk])}

\* The side of a binary condition that is not the attribute, when exactly one
\* side is an attribute.
OneAttribute(c) == IsBinOp(c) /\ ((c.left.t = "Attribute") # (c.right.t = "Attribute"))
AttrOnLeft(c) == c.left.t = "Attribute"
AttrName(c) == IF AttrOnLeft(c) THEN c.left.name ELSE c.right.name
Operand(c) == IF AttrOnLeft(c) THEN c.right ELSE c.left
\* The indexes declared on the attribute of c whose match returns a plan.
Serving(c) ==
  {k \in IdxNums : Indexes[k].name = AttrName(c) /\ ~Index_match(k, c, Operand(c), ~AttrOnLeft(c)).none}

\* C31: UseIndex replaces a ScanFilter over a binary condition with exactly
\* one attribute side by the plan of the first index, in declaration order
\* among the indexes on that attribute, whose match returns a plan; a scan
\* with no such index, with attributes on both sides or on neither, or with
\* a condition that is not binary is left unchanged.
C31_FirstIndexWins ==
  [][last'.op = "useindex" =>
       LET c == cur_plan.condition IN
       IF OneAttribute(c) /\ Serving(c) # {}
       THEN LET k == CHOOSE i \in Serving(c) : \A j \in Serving(c) : i <= j
            IN cur_plan' = Index_match(k, c, Operand(c), ~AttrOnLeft(c)).plan
       ELSE cur_plan' = cur_plan]_vars

\* A scan that two indexes on its attribute can serve has been replaced.
C31_TwoIndexesServed ==
  /\ last.op = "useindex"
  /\ cur_plan = IndexLookup(1, 0)
  /\ Index_match(2, Atom("Eq", "a", 0), Literal(0), FALSE).plan = IndexLookup(2, 0)

\* C32: a range index turns a comparison with the literal on the left into
\* the mirrored range on the attribute: v < attr gives (v, +inf), v <= attr
\* gives [v, +inf), v > attr gives (-inf, v), v >= attr gives (-inf, v];
\* with the attribute on the left the comparator is used as written.
C32_MirroredRange ==
  [][(/\ last'.op = "useindex"
      /\ OneAttribute(cur_plan.condition)
      /\ AttrName(cur_plan.condition) = "a"
      /\ cur_plan.condition.t \in {"Lt", "Le", "Gt", "Ge"}) =>
       LET c == cur_plan.condition
           v == Operand(c).value
           lower(inc) == Range(Bound(v, inc), UNSET)
           upper(inc) == Range(UNSET, Bound(v, inc))
       IN cur_plan' = IndexRange(2,
            IF AttrOnLeft(c)
            THEN CASE c.t = "Lt" -> upper(FALSE) [] c.t = "Le" -> upper(TRUE)
                   [] c.t = "Gt" -> lower(FALSE) [] c.t = "Ge" -> lower(TRUE)
            ELSE CASE c.t = "Lt" -> lower(FALSE) [] c.t = "Le" -> lower(TRUE)
                   [] c.t = "Gt" -> upper(FALSE) [] c.t = "Ge" -> upper(TRUE))]_vars

\* The comparison MaxVal + 1 < a, whose literal is on the left, has become
\* the range (MaxVal + 1, +inf).
C32_LiteralOnLeftRanged ==
  last.op = "useindex" /\ cur_plan = IndexRange(2, Range(Bound(MaxVal + 1, FALSE), UNSET))

\* C33: executing an Intersect stops at the first child that produces an
\* empty set: when a child is empty and every child before it executed
\* without raising, the result is empty and nothing is raised, whatever the
\* later children would do.
C33_IntersectShortCircuits ==
  [][(last'.op = "execute" /\ cur_plan'.t = "Intersect") =>
       LET rs == [i \in 1..Len(cur_plan'.inputs) |-> Wut_execute(cur_plan'.inputs[i], World)]
           empties == {i \in 1..Len(rs) : /\ rs[i].err = "" /\ rs[i].ids = {}
                                          /\ \A j \in 1..(i - 1) : rs[j].err = ""}
       IN empties # {} => res' = [err |-> "", ids |-> {}]]_vars

\* C34: the condition interpreter evaluates And and Or with short-circuit
\* semantics: where the left operand of And is false for every stored row
\* the scan returns no row and raises nothing, and where the left operand of
\* Or is true for every stored row the scan returns every row and raises
\* nothing, whatever the right operand would do.
C34_AndOrShortCircuit ==
  [][(last'.op = "execute" /\ cur_plan'.t = "ScanFilter" /\ cur_plan'.condition.t \in {"And", "Or"}) =>
       LET c == cur_plan'.condition
           decided == IF c.t = "And" THEN FALSE ELSE TRUE
           lefts == {Wut_match(c.left, b, World) : b \in LiveBoxes}
       IN (\A m \in lefts : m.err = "" /\ m.val = decided) =>
            res' = [err |-> "", ids |-> IF decided THEN ListStore_keys(items) ELSE {}]]_vars

\* The rows of the store whose key for index k is null: the memorised key of
\* a row whose add completed, the object's attribute otherwise.
NullKeyed(k) ==
  {b.pk : b \in {x \in LiveBoxes :
                   IF x.has_mem THEN x.index_mem[mem_number(k)] = None
                   ELSE objattr[x.obj][Indexes[k].name] = None}}

\* C35: null-keyed objects live only in the null set of the range index: a
\* range query, whatever its bounds (unbounded sides included), never
\* returns the row-id of an object whose key is null, and lookup(null)
\* returns exactly the null-keyed row-ids.
C35_NullsOnlyInNullSet ==
  /\ \A rg \in Ranges :
       LET r == RangeIndex_range(index[1], rg) IN r.err = "" => r.ids \cap NullKeyed(1) = {}
  /\ HashIndex_lookup(index[1], Indexes[1], None) = [err |-> "", ids |-> NullKeyed(1)]

Inputs(p) == IF p.t \in SetOps THEN p.inputs ELSE IF p.t = "Filter" THEN <<p.input>> ELSE << >>
RECURSIVE SumSeq(_)
SumSeq(ns) == IF ns = << >> THEN 0 ELSE Head(ns) + SumSeq(Tail(ns))
RECURSIVE NodeCount(_)
NodeCount(p) == 1 + SumSeq([i \in 1..Len(Inputs(p)) |-> NodeCount(Inputs(p)[i])])
RECURSIVE NestedSameKind(_)
NestedSameKind(p) ==
  Cardinality({i \in 1..Len(Inputs(p)) : p.t \in SetOps /\ Inputs(p)[i].t = p.t})
    + SumSeq([i \in 1..Len(Inputs(p)) |-> NestedSameKind(Inputs(p)[i])])
\* The leaves of a plan from left to right, each with the kinds of the nodes
\* above it, a run of one set-operation kind counted once.
RECURSIVE Concat(_)
Concat(ss) == IF ss = << >> THEN << >> ELSE Head(ss) \o Concat(Tail(ss))
RECURSIVE LeafPaths(_, _)
LeafPaths(p, path) ==
  IF Inputs(p) = << >> THEN << [path |-> path, leaf |-> p] >>
  ELSE LET here == IF p.t \in SetOps /\ path # << >> /\ path[Len(path)] = p.t THEN path
                   ELSE Append(path, p.t)
       IN Concat([i \in 1..Len(Inputs(p)) |-> LeafPaths(Inputs(p)[i], here)])

\* C37: after MergeSetOps has run on a plan, no Union, Intersect or
\* Difference node has a direct input of its own kind; the leaves keep their
\* left-to-right order, each below the same chain of kinds; and only the
\* nested nodes of their parent's kind are gone.
C37_MergedFlat ==
  [][last'.op = "merge" =>
       /\ NestedSameKind(cur_plan') = 0
       /\ LeafPaths(cur_plan', << >>) = LeafPaths(cur_plan, << >>)
       /\ NodeCount(cur_plan') = NodeCount(cur_plan) - NestedSameKind(cur_plan)]_vars

\* Three levels of Union have been merged into one.
C37_ThreeLevelsMerged ==
  /\ last.op = "merge"
  /\ cur_plan.t = "Union"
  /\ Len(cur_plan.inputs) = 4

\* The row-ids a plan denotes: a scan, filter or index plan what it returns,
\* Union and Intersect the union and intersection of their inputs, and
\* Difference the first input minus the union of the rest.
RECURSIVE Denotes(_, _)
Denotes(p, W) ==
  IF p.t \in SetOps
  THEN LET ds == [i \in 1..Len(p.inputs) |-> Denotes(p.inputs[i], W)] IN
       IF Len(ds) = 0 THEN {}
       ELSE CASE p.t = "Union" -> UNION {ds[i] : i \in 1..Len(ds)}
              [] p.t = "Intersect" -> {x \in ds[1] : \A i \in 1..Len(ds) : x \in ds[i]}
              [] p.t = "Difference" -> ds[1] \ UNION {ds[i] : i \in 2..Len(ds)}
  ELSE IF p.t = "Filter" THEN Wut_execute_filter(Denotes(p.input, W), p.condition, W).ids
  ELSE Wut_execute(p, W).ids

\* C38: MergeSetOps preserves the row-id set a plan denotes for every set
\* operation it rewrites, Difference with a nested Difference that is not
\* its first input included.
C38_MergeKeepsMeaning ==
  [][last'.op = "merge" => Denotes(cur_plan', World) = Denotes(cur_plan, World)]_vars

====
